---- MODULE Spec2Model ----
(***************************************************************************)
(* Authorization core of the document platform: the RBAC evaluator with    *)
(* its side cache, the authorization gate, the RBAC-mutating HTTP surface  *)
(* under /api/v1.  Every HTTP handler is one atomic action (requests do    *)
(* not overlap in the specifications below).  The cache (Redis) is         *)
(* reachable: its operations do not raise.                                 *)
(***************************************************************************)
EXTENDS Integers, Sequences, FiniteSets, TLC

VARIABLES
    now,              \* wall clock, in seconds
    users,            \* table users: id -> row
    roles,            \* table roles: id -> row
    rolePermissions,  \* table role_permissions: set of <<role_id, permission_id>>
    userRoles,        \* table user_roles: set of <<user_id, role_id>>
    auditLogs,        \* table audit_logs: the rows in insertion order
    cache,            \* the keys cache:rbac:permissions:<user_id> and cache:rbac:roles:<user_id>
    nreq,             \* number of HTTP requests served so far
    response,         \* the last HTTP response, with the request it answers
    nticks,           \* number of clock advances so far
    passwordHash,     \* column users.password_hash: id -> hash
    refreshTokens,    \* the keys user:<user_id>:refresh_token
    resetTokens,      \* the keys password_reset:<token>
    userResetTokens,  \* the keys password_reset_user:<user_id>
    rateLimit,        \* the keys rate_limit:<action>:<id> and rate_limit_block:<action>:<id>
    documents,        \* table documents: id -> row
    issued,           \* history: the JWTs handed to clients so far
    resetHistory,     \* history: per user, the reset tokens mailed, oldest first
    revoked,          \* history: refresh tokens issued before a logout or password change
    window,           \* history: where the rate-limit profile stands for the identifier
    sinceReset,       \* history: login attempts since the last successful login, -1 if none
    cacheDown,        \* TRUE while the operations on the RBAC cache keys fail
    permissionRows,   \* table permissions: the rows <<resource, action, scope>>, by id
    inflight,         \* per concurrent request: where its handler stands and its locals
    oidcStates,       \* the keys oidc:state:<state>
    identity          \* columns users.auth_provider, oidc_issuer, oidc_subject, username,
                      \* is_verified: id -> values

rbacStore == <<users, roles, rolePermissions, userRoles, auditLogs>>
rbacVars == <<roles, rolePermissions, userRoles, auditLogs, cache>>
authVars == <<passwordHash, refreshTokens, resetTokens, userResetTokens, issued,
              resetHistory, revoked>>
rateVars == <<rateLimit, window, sinceReset>>
extVars == <<cacheDown, permissionRows, inflight, oidcStates, identity>>
vars == <<now, users, roles, rolePermissions, userRoles, auditLogs, cache, nreq, response,
          nticks, passwordHash, refreshTokens, resetTokens, userResetTokens, rateLimit,
          documents, issued, resetHistory, revoked, window, sinceReset, cacheDown, permissionRows,
          inflight, oidcStates, identity>>

-----------------------------------------------------------------------------
(* Bounds of the model *)

\* HTTP requests served in one behaviour of SpecRbac
MaxReq == 2
\* HTTP requests served in one behaviour of SpecDocs
MaxDocReq == 2
\* HTTP requests served in one behaviour of SpecAuth
MaxAuthReq == 4
\* rate-limited attempts in one behaviour of SpecRate
MaxAttempts == 13
\* clock advances in one behaviour of SpecRate
MaxTicks == 4
\* clock advances in one behaviour of SpecAuth
MaxAuthTicks == 2
\* password-reset tokens generated in one behaviour
MaxResetTokens == 3
\* OIDC state values generated in one behaviour
MaxOidcStates == 2

-----------------------------------------------------------------------------
(* The universe: identifiers are opaque values *)

\* "u0" is the subject of tokens whose user row does not exist
UserIds == {"u0", "u1", "u2"}
RoleIds == {"r1", "r2", "r3"}
\* the ids of the rows of table permissions ("p0" in a request is an id with no row)
PermIds == {"p1", "p2", "p3", "p4", "p5", "p6", "p7", "p8", "p9", "p10", "p11"}
None == "None"

NoRow == [exists |-> FALSE, deleted |-> FALSE]
DeletedRow == [exists |-> FALSE, deleted |-> TRUE]
NoEntry == [hit |-> FALSE]

\* rows of table permissions; (resource, action, scope) is unique
PermissionRow(p) ==
    CASE p = "p1" -> [id |-> "p1", resource |-> "roles", action |-> "*", scope |-> "all"]
      [] p = "p2" -> [id |-> "p2", resource |-> "users", action |-> "update", scope |-> "all"]
      [] p = "p3" -> [id |-> "p3", resource |-> "users", action |-> "read", scope |-> "all"]
      [] p = "p4" -> [id |-> "p4", resource |-> "*", action |-> "read", scope |-> "team"]
      [] p = "p5" -> [id |-> "p5", resource |-> "documents", action |-> "update", scope |-> "own"]
      [] p = "p6" -> [id |-> "p6", resource |-> "documents", action |-> "read", scope |-> "all"]
      [] p = "p7" -> [id |-> "p7", resource |-> "documents", action |-> "update", scope |-> "all"]
      [] p = "p8" -> [id |-> "p8", resource |-> "documents", action |-> "delete", scope |-> "all"]
      [] p = "p9" -> [id |-> "p9", resource |-> "documents", action |-> "create", scope |-> "own"]
      [] p = "p10" -> [id |-> "p10", resource |-> "documents", action |-> "read", scope |-> "own"]
      [] p = "p11" -> [id |-> "p11", resource |-> "documents", action |-> "delete", scope |-> "own"]

Resources == {"roles", "users", "documents"}
Actions == {"create", "read", "update", "delete"}
Scopes == {"own", "team", "all"}

\* some enumeration of a finite set, as a database returns rows in some order
RECURSIVE SetToSeq(_)
SetToSeq(S) ==
    IF S = {} THEN <<>>
    ELSE LET x == CHOOSE y \in S : TRUE IN <<x>> \o SetToSeq(S \ {x})

Range(s) == {s[i] : i \in DOMAIN s}

\* the client address all rate-limited requests come from
ClientIp == "ip1"
RateActions == {"login", "password_reset", "register"}

_get_rate_limit_key(identifier, action) == <<"rate_limit", action, identifier>>
_get_block_key(identifier, action) == <<"rate_limit_block", action, identifier>>
RateKeys == {_get_rate_limit_key(ClientIp, a) : a \in RateActions}
                \cup {_get_block_key(ClientIp, a) : a \in RateActions}

\* secrets.token_urlsafe: the i-th token generated differs from all before it
ResetTokenIds == {<<"reset", i>> : i \in 1..MaxResetTokens}
NoHash == <<"none">>
DocIds == {"d1", "d2", "d3"}

\* a key of the cache is there until its expiry time
Live(entry) == entry.hit /\ now < entry.expire_at

\* the parts of the state a specification does not use stay as they are here
NoAuthState ==
    /\ passwordHash = [u \in UserIds |-> NoHash]
    /\ refreshTokens = [u \in UserIds |-> NoEntry]
    /\ resetTokens = [t \in ResetTokenIds |-> NoEntry]
    /\ userResetTokens = [u \in UserIds |-> NoEntry]
    /\ issued = {}
    /\ resetHistory = [u \in UserIds |-> <<>>]
    /\ revoked = {}

IdleWindow == [mode |-> "idle", k |-> 0, start |-> 0, allowed |-> TRUE, blocks |-> FALSE]

NoRateState ==
    /\ rateLimit = [k \in RateKeys |-> NoEntry]
    /\ window = IdleWindow
    /\ sinceReset = -1

\* the requests that may be in flight at the same time
Procs == {"a", "b"}
IdleProc ==
    [pc |-> "idle", op |-> "none", token |-> <<"none">>, arg |-> "None", user_id |-> "None",
     status |-> 0]

\* secrets.token_urlsafe: the i-th state generated differs from all before it
OidcStateIds == {<<"state", i>> : i \in 1..MaxOidcStates}

\* settings.OIDC_ISSUER_URL and the subjects the provider knows
OIDC_ISSUER_URL == "iss"
OidcSubjects == {"s1", "s2"}

NoIdentity == [auth_provider |-> None, oidc_issuer |-> None, oidc_subject |-> None]
LocalIdentity == [auth_provider |-> "local", oidc_issuer |-> None, oidc_subject |-> None]
OidcIdentity(subject) ==
    [auth_provider |-> "oidc", oidc_issuer |-> OIDC_ISSUER_URL, oidc_subject |-> subject]

\* columns users.username and users.is_verified next to the provider columns
Account(provider, username, is_verified) ==
    provider @@ [username |-> username, is_verified |-> is_verified]

\* the names the accounts were given: a name is the sequence of its characters
Username(u) == CASE u = "u0" -> <<"m">> [] u = "u1" -> <<"n">> [] u = "u2" -> <<"n", "1">>

\* no request in flight, the cache up, no OIDC flow started; the accounts
\* without a password are the ones the provider created
NoExtState ==
    /\ cacheDown = FALSE
    /\ permissionRows = [p \in PermIds |->
                         <<PermissionRow(p).resource, PermissionRow(p).action,
                           PermissionRow(p).scope>>]
    /\ inflight = [p \in Procs |-> IdleProc]
    /\ oidcStates = [s \in OidcStateIds |-> NoEntry]
    /\ identity = [u \in UserIds |->
                      IF ~users[u].exists THEN Account(NoIdentity, <<>>, FALSE)
                      ELSE IF passwordHash[u] = NoHash
                      THEN Account(OidcIdentity("s2"), Username(u), TRUE)
                      ELSE Account(LocalIdentity, Username(u), FALSE)]

NoDocuments == documents = [d \in DocIds |-> NoRow]

-----------------------------------------------------------------------------
(* Token service (services/jwt.py) *)

\* settings.JWT_ACCESS_TOKEN_EXPIRE_MINUTES and settings.JWT_REFRESH_TOKEN_EXPIRE_DAYS
JWT_ACCESS_TOKEN_EXPIRE_MINUTES == 30
JWT_REFRESH_TOKEN_EXPIRE_DAYS == 7
AccessLifetime == JWT_ACCESS_TOKEN_EXPIRE_MINUTES * 60
RefreshLifetime == JWT_REFRESH_TOKEN_EXPIRE_DAYS * 24 * 60 * 60

create_access_token(user_id, at) ==
    <<"jwt", user_id, at + AccessLifetime, at, "access">>

create_refresh_token(user_id, at) ==
    <<"jwt", user_id, at + RefreshLifetime, at, "refresh">>

NoToken == <<"none">>
Garbage == <<"garbage">>

\* jwt.decode verifies the signature and the exp claim, JWTError gives None
decode_token(token) ==
    IF token[1] # "jwt" THEN [ok |-> FALSE]
    ELSE IF token[3] < now THEN [ok |-> FALSE]
    ELSE [ok |-> TRUE, sub |-> token[2], exp |-> token[3], iat |-> token[4],
          type |-> token[5]]

is_token_expired(token_payload) == now >= token_payload.exp

-----------------------------------------------------------------------------
(* RBAC evaluator (services/rbac.py) *)

UserExists(u) == users[u].exists
RoleExists(r) == roles[r].exists

RolesOfUser(u) == {r \in RoleIds : <<u, r>> \in userRoles /\ RoleExists(r)}
PermissionsOfRole(r) == {p \in PermIds : <<r, p>> \in rolePermissions}

\* the database part of get_user_permissions: the deduplicated permission dicts
LoadPermissions(u) ==
    SetToSeq({PermissionRow(p) : p \in UNION {PermissionsOfRole(r) : r \in RolesOfUser(u)}})

RoleDict(r) ==
    [id |-> r, name |-> roles[r].name, description |-> roles[r].description,
     is_system |-> roles[r].is_system]

\* the database part of get_user_roles
LoadRoles(u) == SetToSeq({RoleDict(r) : r \in RolesOfUser(u)})

_user_permissions_cache_key(user_id) == <<"cache", "rbac", "permissions", user_id>>
_user_roles_cache_key(user_id) == <<"cache", "rbac", "roles", user_id>>
CacheKeys == {_user_permissions_cache_key(u) : u \in UserIds}
                 \cup {_user_roles_cache_key(u) : u \in UserIds}

\* Cache TTL for permissions (5 minutes)
PERMISSIONS_CACHE_TTL == 300

\* RedisCache.get_json: a value comes back when the key is there, has not
\* expired and the operation does not fail; a failure reads as None
CacheHit(c, k) == ~cacheDown /\ Live(c[k])

\* a faulty set_json: the entry lives twice as long as asked
set_json_doubling_expiry(c, k, value, expire) ==
    IF cacheDown THEN c
    ELSE [c EXCEPT ![k] = [hit |-> TRUE, value |-> value, expire_at |-> now + 2 * expire]]

\* RedisCache.set_json with expire: a failure is swallowed and writes nothing
set_json(c, k, value, expire) ==
    IF cacheDown THEN c
    ELSE [c EXCEPT ![k] = [hit |-> TRUE, value |-> value, expire_at |-> now + expire]]

\* RedisCache.delete: a failure is swallowed and deletes nothing
cache_delete(c, k) == IF cacheDown THEN c ELSE [c EXCEPT ![k] = NoEntry]

\* a faulty get_user_permissions: without the cache there is no answer
get_user_permissions_cache_only(u) ==
    IF CacheHit(cache, _user_permissions_cache_key(u))
    THEN cache[_user_permissions_cache_key(u)].value
    ELSE <<>>

\* the list get_user_permissions returns: the cache entry when there is one
get_user_permissions(u) ==
    IF CacheHit(cache, _user_permissions_cache_key(u))
    THEN cache[_user_permissions_cache_key(u)].value
    ELSE IF ~UserExists(u) THEN <<>>
    ELSE LoadPermissions(u)

\* the cache after get_user_permissions: a miss is filled from the store
CacheAfterGetPermissions(c, u) ==
    IF CacheHit(c, _user_permissions_cache_key(u)) \/ ~UserExists(u) THEN c
    ELSE set_json(c, _user_permissions_cache_key(u), LoadPermissions(u),
                  PERMISSIONS_CACHE_TTL)

get_user_roles(u) ==
    IF CacheHit(cache, _user_roles_cache_key(u))
    THEN cache[_user_roles_cache_key(u)].value
    ELSE IF ~UserExists(u) THEN <<>>
    ELSE LoadRoles(u)

CacheAfterGetRoles(c, u) ==
    IF CacheHit(c, _user_roles_cache_key(u)) \/ ~UserExists(u) THEN c
    ELSE set_json(c, _user_roles_cache_key(u), LoadRoles(u), PERMISSIONS_CACHE_TTL)

\* a faulty scope_hierarchy: every scope has the same level
scope_hierarchy_flat(scope) == 0

scope_hierarchy(scope) ==
    CASE scope = "own" -> 0
      [] scope = "team" -> 1
      [] scope = "all" -> 2
      [] OTHER -> 0

\* the loop of has_permission over the permission list
RECURSIVE PermissionLoop(_, _, _, _)
PermissionLoop(permissions, resource, action, required_scope_level) ==
    IF permissions = <<>> THEN FALSE
    ELSE LET perm == Head(permissions)
             resource_match == perm.resource = resource \/ perm.resource = "*"
             action_match == perm.action = action \/ perm.action = "*"
         IN IF resource_match /\ action_match
                /\ scope_hierarchy(perm.scope) >= required_scope_level
            THEN TRUE
            ELSE PermissionLoop(Tail(permissions), resource, action, required_scope_level)

has_permission(u, resource, action, required_scope) ==
    PermissionLoop(get_user_permissions(u), resource, action,
                   scope_hierarchy(required_scope))

has_role(u, role_name) == \E i \in DOMAIN get_user_roles(u) : get_user_roles(u)[i].name = role_name

\* a faulty invalidate_user_cache: it deletes the permissions key only
invalidate_permissions_key_only(c, user_id) ==
    cache_delete(c, _user_permissions_cache_key(user_id))

\* invalidate_user_cache deletes both keys of the user
invalidate_user_cache(c, user_id) ==
    cache_delete(cache_delete(c, _user_permissions_cache_key(user_id)),
                 _user_roles_cache_key(user_id))

\* invalidate_role_cache: invalidate_user_cache for every user the store lists
\* for the role
UsersWithRole(role_id) == {u \in UserIds : UserExists(u) /\ <<u, role_id>> \in userRoles}

RECURSIVE InvalidateEach(_, _)
InvalidateEach(c, us) ==
    IF us = <<>> THEN c
    ELSE InvalidateEach(invalidate_user_cache(c, Head(us)), Tail(us))

invalidate_role_cache(c, role_id) == InvalidateEach(c, SetToSeq(UsersWithRole(role_id)))

-----------------------------------------------------------------------------
(* Authorization gate (api/deps.py) *)

Reject(status) == [status |-> status, user |-> None]

get_current_user(token) ==
    IF token = NoToken THEN Reject(401)
    ELSE LET token_payload == decode_token(token) IN
         IF ~token_payload.ok THEN Reject(401)
         ELSE IF token_payload.type # "access" THEN Reject(401)
         ELSE IF is_token_expired(token_payload) THEN Reject(401)
         ELSE IF ~UserExists(token_payload.sub) THEN Reject(401)
         ELSE [status |-> 200, user |-> token_payload.sub]

\* a faulty gate: the check of is_active is left out
get_current_active_user_any(token) == get_current_user(token)

get_current_active_user(token) ==
    LET current_user == get_current_user(token) IN
    IF current_user.status # 200 THEN current_user
    ELSE IF ~users[current_user.user].is_active THEN Reject(403)
    ELSE current_user

\* require_permission(resource, action, scope) after get_current_active_user
permission_checker(token, resource, action, scope) ==
    LET current_user == get_current_active_user(token) IN
    IF current_user.status # 200 THEN current_user
    ELSE IF ~has_permission(current_user.user, resource, action, scope) THEN Reject(403)
    ELSE current_user

\* the permission check reads through the cache and fills the principal's entry
CacheAfterGate(token) ==
    LET current_user == get_current_active_user(token) IN
    IF current_user.status = 200
    THEN CacheAfterGetPermissions(cache, current_user.user)
    ELSE cache

Respond(op, status, token, user, role, body) ==
    /\ response' = [seq |-> nreq + 1, op |-> op, status |-> status, token |-> token,
                    user |-> user, role |-> role, body |-> body]
    /\ nreq' = nreq + 1

-----------------------------------------------------------------------------
(* Role and user-role services (services/rbac.py) *)

get_role_by_name(name) == {r \in RoleIds : RoleExists(r) /\ roles[r].name = name}

\* ids the database has never handed out
FreeRoleIds == {r \in RoleIds : ~roles[r].exists /\ ~roles[r].deleted}

create_role(r, name, description, is_system) ==
    [roles EXCEPT ![r] = [exists |-> TRUE, deleted |-> FALSE, name |-> name,
                          description |-> description, is_system |-> is_system]]

\* a reading of the flag that takes no role for a system role
is_system_never(r) == FALSE

\* column roles.is_system
is_system(r) == roles[r].is_system

update_role(r, name, description) ==
    [roles EXCEPT ![r].name = IF name # None THEN name ELSE @,
                  ![r].description = IF description # None THEN description ELSE @]

get_permission_by_id(p) == p \in PermIds

assign_permission_to_role(rp, role_id, p) == rp \cup {<<role_id, p>>}

remove_permission_from_role(rp, role_id, p) == rp \ {<<role_id, p>>}

\* a loop whose flushed rows stay when an unknown id raises 404
RECURSIVE AssignLoopKeepingRows(_, _, _)
AssignLoopKeepingRows(rp, role_id, permission_ids) ==
    IF permission_ids = <<>> THEN [ok |-> TRUE, rp |-> rp]
    ELSE IF ~get_permission_by_id(Head(permission_ids)) THEN [ok |-> FALSE, rp |-> rp]
    ELSE AssignLoopKeepingRows(assign_permission_to_role(rp, role_id, Head(permission_ids)),
                               role_id, Tail(permission_ids))

\* the loop of assign_permissions; an unknown id raises 404 and the session is
\* rolled back
RECURSIVE AssignLoop(_, _, _)
AssignLoop(rp, role_id, permission_ids) ==
    IF permission_ids = <<>> THEN [ok |-> TRUE, rp |-> rp]
    ELSE IF ~get_permission_by_id(Head(permission_ids)) THEN [ok |-> FALSE, rp |-> rolePermissions]
    ELSE AssignLoop(assign_permission_to_role(rp, role_id, Head(permission_ids)), role_id,
                    Tail(permission_ids))

\* User.roles is declared viewonly=True: the unit of work writes no user_roles
\* row for a change of the collection
flush_user_roles(ur, appended, removed) == ur

\* assign_role_to_user: the cache after it
assign_role_to_user(c, user_id, role_id) ==
    IF <<user_id, role_id>> \notin userRoles THEN invalidate_user_cache(c, user_id) ELSE c

\* remove_role_from_user: the cache after it
remove_role_from_user(c, user_id, role_id) ==
    IF <<user_id, role_id>> \in userRoles THEN invalidate_user_cache(c, user_id) ELSE c

\* AuditService.log_role_assigned / log_role_removed
AuditRow(action, actor, target_user_id, role_id) ==
    [action |-> action, user_id |-> actor, target |-> target_user_id, role |-> role_id]

\* the loop of bulk_assign_role: [cache, audit] after it
RECURSIVE BulkLoop(_, _, _, _, _)
BulkLoop(c, logs, actor, role_id, user_ids) ==
    IF user_ids = <<>> THEN [cache |-> c, logs |-> logs]
    ELSE IF ~UserExists(Head(user_ids)) THEN BulkLoop(c, logs, actor, role_id, Tail(user_ids))
    ELSE BulkLoop(assign_role_to_user(c, Head(user_ids), role_id),
                  Append(logs, AuditRow("role_assigned", actor, Head(user_ids), role_id)),
                  actor, role_id, Tail(user_ids))

-----------------------------------------------------------------------------
(* HTTP handlers of /api/v1/roles (api/v1/roles.py) *)

\* the request is answered without any row or cache key written by the body
Answer(op, status, token, user, role, c) ==
    /\ Respond(op, status, token, user, role, {})
    /\ cache' = c
    /\ UNCHANGED <<now, users, roles, rolePermissions, userRoles, auditLogs>>

create_new_role(token, name, description) ==
    /\ nreq < MaxReq
    /\ UNCHANGED <<nticks, extVars, authVars, rateVars, documents>>
    /\ LET auth == permission_checker(token, "roles", "create", "all")
           c == CacheAfterGate(token)
       IN IF auth.status # 200 THEN Answer("create_new_role", auth.status, token, None, None, c)
          ELSE IF get_role_by_name(name) # {}
               THEN Answer("create_new_role", 400, token, None, None, c)
          ELSE \E r \in FreeRoleIds :
                  /\ roles' = create_role(r, name, description, FALSE)
                  /\ cache' = c
                  /\ Respond("create_new_role", 201, token, None, r, {})
                  /\ UNCHANGED <<now, users, rolePermissions, userRoles, auditLogs>>

update_existing_role(token, role_id, name, description) ==
    /\ nreq < MaxReq
    /\ UNCHANGED <<nticks, extVars, authVars, rateVars, documents>>
    /\ LET auth == permission_checker(token, "roles", "update", "all")
           c == CacheAfterGate(token)
       IN IF auth.status # 200
          THEN Answer("update_existing_role", auth.status, token, None, None, c)
          ELSE IF ~RoleExists(role_id)
               THEN Answer("update_existing_role", 404, token, None, role_id, c)
          ELSE IF name # None /\ name # roles[role_id].name /\ get_role_by_name(name) # {}
               THEN Answer("update_existing_role", 400, token, None, role_id, c)
          ELSE /\ roles' = update_role(role_id, name, description)
               /\ cache' = invalidate_role_cache(c, role_id)
               /\ Respond("update_existing_role", 200, token, None, role_id, {})
               /\ UNCHANGED <<now, users, rolePermissions, userRoles, auditLogs>>

delete_existing_role(token, role_id) ==
    /\ nreq < MaxReq
    /\ UNCHANGED <<nticks, extVars, authVars, rateVars, documents>>
    /\ LET auth == permission_checker(token, "roles", "delete", "all")
           c == CacheAfterGate(token)
       IN IF auth.status # 200
          THEN Answer("delete_existing_role", auth.status, token, None, None, c)
          ELSE IF ~RoleExists(role_id)
               THEN Answer("delete_existing_role", 404, token, None, role_id, c)
          ELSE IF is_system(role_id)
               THEN Answer("delete_existing_role", 400, token, None, role_id, c)
          ELSE /\ cache' = invalidate_role_cache(c, role_id)
               /\ roles' = [roles EXCEPT ![role_id] = DeletedRow]
               \* role_permissions and user_roles rows go with the role (ON DELETE CASCADE)
               /\ rolePermissions' = {rp \in rolePermissions : rp[1] # role_id}
               /\ userRoles' = {ur \in userRoles : ur[2] # role_id}
               /\ Respond("delete_existing_role", 200, token, None, role_id, {})
               /\ UNCHANGED <<now, users, auditLogs>>

assign_permissions(token, role_id, permission_ids) ==
    /\ nreq < MaxReq
    /\ UNCHANGED <<nticks, extVars, authVars, rateVars, documents>>
    /\ LET auth == permission_checker(token, "roles", "update", "all")
           c == CacheAfterGate(token)
           loop == AssignLoop(rolePermissions, role_id, permission_ids)
       IN IF auth.status # 200
          THEN Answer("assign_permissions", auth.status, token, None, None, c)
          ELSE IF ~RoleExists(role_id)
               THEN Answer("assign_permissions", 404, token, None, role_id, c)
          ELSE IF ~loop.ok
               \* the HTTPException ends the session of get_db with a rollback
               THEN /\ rolePermissions' = loop.rp
                    /\ cache' = c
                    /\ Respond("assign_permissions", 404, token, None, role_id, {})
                    /\ UNCHANGED <<now, users, roles, userRoles, auditLogs>>
          ELSE /\ rolePermissions' = loop.rp
               /\ cache' = invalidate_role_cache(c, role_id)
               /\ Respond("assign_permissions", 200, token, None, role_id,
                          {rp[2] : rp \in {x \in loop.rp : x[1] = role_id}})
               /\ UNCHANGED <<now, users, roles, userRoles, auditLogs>>

remove_permission(token, role_id, permission_id) ==
    /\ nreq < MaxReq
    /\ UNCHANGED <<nticks, extVars, authVars, rateVars, documents>>
    /\ LET auth == permission_checker(token, "roles", "update", "all")
           c == CacheAfterGate(token)
           rp1 == remove_permission_from_role(rolePermissions, role_id, permission_id)
       IN IF auth.status # 200
          THEN Answer("remove_permission", auth.status, token, None, None, c)
          ELSE IF ~RoleExists(role_id) \/ ~get_permission_by_id(permission_id)
               THEN Answer("remove_permission", 404, token, None, role_id, c)
          ELSE /\ rolePermissions' = rp1
               /\ cache' = invalidate_role_cache(c, role_id)
               /\ Respond("remove_permission", 200, token, None, role_id,
                          {rp[2] : rp \in {x \in rp1 : x[1] = role_id}})
               /\ UNCHANGED <<now, users, roles, userRoles, auditLogs>>

-----------------------------------------------------------------------------
(* HTTP handlers of /api/v1/users (api/v1/users.py) *)

\* GET /users/{user_id}/roles: reads user.roles from the database
get_user_roles_endpoint(token, user_id) ==
    /\ nreq < MaxReq
    /\ UNCHANGED <<nticks, extVars, authVars, rateVars, documents>>
    /\ LET auth == permission_checker(token, "users", "read", "all")
           c == CacheAfterGate(token)
       IN IF auth.status # 200
          THEN Answer("get_user_roles", auth.status, token, None, None, c)
          ELSE IF ~UserExists(user_id)
               THEN Answer("get_user_roles", 404, token, user_id, None, c)
          ELSE /\ Respond("get_user_roles", 200, token, user_id, None, RolesOfUser(user_id))
               /\ cache' = c
               /\ UNCHANGED <<now, users, roles, rolePermissions, userRoles, auditLogs>>

assign_user_role(token, user_id, role_id) ==
    /\ nreq < MaxReq
    /\ UNCHANGED <<nticks, extVars, authVars, rateVars, documents>>
    /\ LET auth == permission_checker(token, "users", "update", "all")
           c == CacheAfterGate(token)
       IN IF auth.status # 200
          THEN Answer("assign_user_role", auth.status, token, None, None, c)
          ELSE IF ~UserExists(user_id) \/ ~RoleExists(role_id)
               THEN Answer("assign_user_role", 404, token, user_id, role_id, c)
          ELSE IF <<user_id, role_id>> \in userRoles
               THEN Answer("assign_user_role", 400, token, user_id, role_id, c)
          ELSE /\ cache' = assign_role_to_user(c, user_id, role_id)
               /\ userRoles' = flush_user_roles(userRoles, {<<user_id, role_id>>}, {})
               /\ auditLogs' = Append(auditLogs,
                                      AuditRow("role_assigned", auth.user, user_id, role_id))
               /\ Respond("assign_user_role", 200, token, user_id, role_id, {})
               /\ UNCHANGED <<now, users, roles, rolePermissions>>

remove_user_role(token, user_id, role_id) ==
    /\ nreq < MaxReq
    /\ UNCHANGED <<nticks, extVars, authVars, rateVars, documents>>
    /\ LET auth == permission_checker(token, "users", "update", "all")
           c == CacheAfterGate(token)
       IN IF auth.status # 200
          THEN Answer("remove_user_role", auth.status, token, None, None, c)
          ELSE IF ~UserExists(user_id) \/ ~RoleExists(role_id)
               THEN Answer("remove_user_role", 404, token, user_id, role_id, c)
          ELSE /\ cache' = remove_role_from_user(c, user_id, role_id)
               /\ userRoles' = flush_user_roles(userRoles, {}, {<<user_id, role_id>>})
               /\ auditLogs' = Append(auditLogs,
                                      AuditRow("role_removed", auth.user, user_id, role_id))
               /\ Respond("remove_user_role", 200, token, user_id, role_id, {})
               /\ UNCHANGED <<now, users, roles, rolePermissions>>

bulk_assign_role(token, role_id, user_ids) ==
    /\ nreq < MaxReq
    /\ UNCHANGED <<nticks, extVars, authVars, rateVars, documents>>
    /\ LET auth == permission_checker(token, "users", "update", "all")
           c == CacheAfterGate(token)
           loop == BulkLoop(c, auditLogs, auth.user, role_id, user_ids)
       IN IF auth.status # 200
          THEN Answer("bulk_assign_role", auth.status, token, None, None, c)
          ELSE IF ~RoleExists(role_id)
               THEN Answer("bulk_assign_role", 404, token, None, role_id, c)
          ELSE /\ cache' = loop.cache
               /\ userRoles' = flush_user_roles(userRoles,
                                   {<<u, role_id>> : u \in Range(user_ids)}, {})
               /\ auditLogs' = loop.logs
               /\ Respond("bulk_assign_role", 200, token, None, role_id, {})
               /\ UNCHANGED <<now, users, roles, rolePermissions>>

\* an endpoint guarded by require_role(role_name): has_role reads through the
\* roles key of the principal
role_checker(token, role_name) ==
    /\ nreq < MaxReq
    /\ UNCHANGED <<nticks, extVars, authVars, rateVars, documents>>
    /\ LET current_user == get_current_active_user(token)
       IN IF current_user.status # 200
          THEN Answer("role_checker", current_user.status, token, None, None, cache)
          ELSE Answer("role_checker",
                      IF has_role(current_user.user, role_name) THEN 200 ELSE 403,
                      token, current_user.user, None,
                      CacheAfterGetRoles(cache, current_user.user))

-----------------------------------------------------------------------------
(* Specification SpecRbac: sequential requests to the RBAC surface *)

\* the clock of SpecRbac stands still, within one cache TTL
RbacNow == AccessLifetime + 1

\* bearer credentials a request may carry: none, undecodable, access tokens of
\* a missing user and of the two users, one whose exp is the current second,
\* one whose exp has passed, and a refresh token
GateTokens ==
    {NoToken, Garbage,
     create_access_token("u0", RbacNow), create_access_token("u1", RbacNow),
     create_access_token("u2", RbacNow), create_access_token("u1", 1),
     create_access_token("u1", 0), create_refresh_token("u1", RbacNow)}

\* request bodies: (name, description) of RoleCreate and RoleUpdate, the
\* permission_ids of PermissionAssign, the user_ids of UserRoleBulkAssign
RoleCreateInputs == {<<"Editor", None>>, <<"Guest", "d2">>}
RoleUpdateInputs == {<<"Guest", None>>, <<None, "d2">>, <<"Editor", "d2">>}
PermissionIdLists == {<<"p4">>, <<"p2", "p5">>, <<"p5", "p0">>}
RemoveInputs == {"p1", "p2", "p4", "p0"}
UserIdLists == {<<"u0", "u2">>, <<"u1", "u2">>}
CheckedRoleNames == {"Admin", "Editor"}

NoResponse ==
    [seq |-> 0, op |-> "none", status |-> 0, token |-> NoToken, user |-> None,
     role |-> None, body |-> {}]

UserRow(is_active) ==
    [exists |-> TRUE, deleted |-> FALSE, is_active |-> is_active, last_login_at |-> -1]

\* the seeded database: the system role Admin held by u1 and the role Editor;
\* u2 was provisioned with any of them, active or not
InitRbac ==
    /\ now = RbacNow
    /\ \E active \in BOOLEAN :
          users = [u \in UserIds |->
                      CASE u = "u0" -> NoRow
                        [] u = "u1" -> UserRow(TRUE)
                        [] u = "u2" -> UserRow(active)]
    /\ roles = [r \in RoleIds |->
                   CASE r = "r1" -> [exists |-> TRUE, deleted |-> FALSE, name |-> "Admin",
                                     description |-> "d1", is_system |-> TRUE]
                     [] r = "r2" -> [exists |-> TRUE, deleted |-> FALSE, name |-> "Editor",
                                     description |-> "d1", is_system |-> FALSE]
                     [] r = "r3" -> NoRow]
    /\ rolePermissions = {<<"r1", "p1">>, <<"r1", "p2">>, <<"r1", "p3">>,
                          <<"r2", "p4">>, <<"r2", "p5">>}
    /\ \E held \in SUBSET {"r1", "r2"} :
          userRoles = {<<"u1", "r1">>} \cup {<<"u2", r>> : r \in held}
    /\ auditLogs = <<>>
    /\ cache = [k \in CacheKeys |-> NoEntry]
    /\ nreq = 0
    /\ response = NoResponse
    /\ nticks = 0
    /\ NoAuthState /\ NoRateState /\ NoDocuments /\ NoExtState

NextRbac ==
    \/ \E token \in GateTokens, role_data \in RoleCreateInputs :
          create_new_role(token, role_data[1], role_data[2])
    \/ \E token \in GateTokens, role_id \in RoleIds, role_data \in RoleUpdateInputs :
          update_existing_role(token, role_id, role_data[1], role_data[2])
    \/ \E token \in GateTokens, role_id \in RoleIds : delete_existing_role(token, role_id)
    \/ \E token \in GateTokens, role_id \in RoleIds, permission_ids \in PermissionIdLists :
          assign_permissions(token, role_id, permission_ids)
    \/ \E token \in GateTokens, role_id \in RoleIds, permission_id \in RemoveInputs :
          remove_permission(token, role_id, permission_id)
    \/ \E token \in GateTokens, user_id \in UserIds : get_user_roles_endpoint(token, user_id)
    \/ \E token \in GateTokens, user_id \in UserIds, role_id \in RoleIds :
          assign_user_role(token, user_id, role_id)
    \/ \E token \in GateTokens, user_id \in UserIds, role_id \in RoleIds :
          remove_user_role(token, user_id, role_id)
    \/ \E token \in GateTokens, role_id \in RoleIds, user_ids \in UserIdLists :
          bulk_assign_role(token, role_id, user_ids)
    \/ \E token \in GateTokens, role_name \in CheckedRoleNames : role_checker(token, role_name)

SpecRbac == InitRbac /\ [][NextRbac]_vars

-----------------------------------------------------------------------------
(* Properties of SpecRbac *)

\* the specification's rank of scopes and its "satisfies" relation
Rank(s) == CASE s = "own" -> 1 [] s = "team" -> 2 [] s = "all" -> 3

Satisfies(p, resource, action, scope) ==
    /\ p.resource = resource \/ p.resource = "*"
    /\ p.action = action \/ p.action = "*"
    /\ Rank(p.scope) >= Rank(scope)

\* the effective permission set of a user: the permissions of the roles the
\* store associates with the user
EffectivePermissions(u) ==
    IF ~users[u].exists THEN {}
    ELSE {PermissionRow(p) : p \in {q \in PermIds :
              \E r \in RoleIds : /\ roles[r].exists
                                 /\ <<u, r>> \in userRoles
                                 /\ <<r, q>> \in rolePermissions}}

EffectiveRoles(u) ==
    IF ~users[u].exists THEN {}
    ELSE {r \in RoleIds : roles[r].exists /\ <<u, r>> \in userRoles}

\* C1: has_permission(user, r', a', s') is true if and only if the effective
\* permission set of the user holds a permission that satisfies (r', a', s'):
\* same resource or "*", same action or "*", and a scope of at least the rank
\* of s', with own < team < all.
C1_HasPermissionIffSatisfied ==
    \A u \in UserIds, resource \in Resources, action \in Actions, scope \in Scopes :
        has_permission(u, resource, action, scope)
            <=> \E p \in EffectivePermissions(u) : Satisfies(p, resource, action, scope)

\* a request passed the gate on a wildcard action (roles:*:all for roles:update:all)
\* while a holder of *:read:team is refused documents:read:all and granted
\* documents:read:own
C1_Witness ==
    /\ response.op = "update_existing_role" /\ response.status = 200
    /\ EffectivePermissions("u1") = {PermissionRow("p1"), PermissionRow("p2"),
                                     PermissionRow("p3")}
    /\ EffectivePermissions("u2") = {PermissionRow("p4"), PermissionRow("p5")}
    /\ has_permission("u2", "documents", "read", "own")
    /\ ~has_permission("u2", "documents", "read", "all")

\* the permission each endpoint declares
RequiredPermission(op) ==
    CASE op = "create_new_role" -> <<"roles", "create", "all">>
      [] op = "update_existing_role" -> <<"roles", "update", "all">>
      [] op = "delete_existing_role" -> <<"roles", "delete", "all">>
      [] op = "assign_permissions" -> <<"roles", "update", "all">>
      [] op = "remove_permission" -> <<"roles", "update", "all">>
      [] op = "get_user_roles" -> <<"users", "read", "all">>
      [] op = "assign_user_role" -> <<"users", "update", "all">>
      [] op = "remove_user_role" -> <<"users", "update", "all">>
      [] op = "bulk_assign_role" -> <<"users", "update", "all">>

ProtectedOps ==
    {"create_new_role", "update_existing_role", "delete_existing_role", "assign_permissions",
     "remove_permission", "get_user_roles", "assign_user_role", "remove_user_role",
     "bulk_assign_role"}

\* the credential is a decodable, unexpired token of type access whose subject
\* is an existing active user who satisfies the permission
Authorized(token, required) ==
    /\ token[1] = "jwt"
    /\ token[5] = "access"
    /\ token[3] > now
    /\ users[token[2]].exists
    /\ users[token[2]].is_active
    /\ \E p \in EffectivePermissions(token[2]) :
          Satisfies(p, required[1], required[2], required[3])

SameRows(list, rows) == Range(list) = rows /\ Len(list) = Cardinality(rows)

\* C5: after every completed request, every existing cache entry
\* cache:rbac:permissions:<u> and cache:rbac:roles:<u> equals what the store
\* yields for u; a completed mutation of a role leaves no key of a holder of the
\* role, and a completed assignment leaves no key of the user.
C5_CacheMatchesStore ==
    /\ \A u \in UserIds :
          /\ cache[_user_permissions_cache_key(u)].hit
                => SameRows(cache[_user_permissions_cache_key(u)].value,
                            EffectivePermissions(u))
          /\ cache[_user_roles_cache_key(u)].hit
                => SameRows(cache[_user_roles_cache_key(u)].value,
                            {RoleDict(r) : r \in EffectiveRoles(u)})
    /\ (response.status = 200
          /\ response.op \in {"update_existing_role", "assign_permissions", "remove_permission"})
         => \A u \in UserIds :
               response.role \in EffectiveRoles(u)
                  => /\ ~cache[_user_permissions_cache_key(u)].hit
                     /\ ~cache[_user_roles_cache_key(u)].hit
    /\ (response.status = 200 /\ response.op = "assign_user_role")
         => /\ ~cache[_user_permissions_cache_key(response.user)].hit
            /\ ~cache[_user_roles_cache_key(response.user)].hit

\* u2's keys were filled, then a permission was detached from the role Admin
\* held by u1 only: u1's keys are gone and u2's entry is still there
C5_Witness ==
    /\ response.op = "remove_permission" /\ response.status = 200 /\ response.role = "r1"
    /\ EffectiveRoles("u1") = {"r1"} /\ EffectiveRoles("u2") = {"r2"}
    /\ cache[_user_permissions_cache_key("u2")].hit
    /\ ~cache[_user_permissions_cache_key("u1")].hit

\* C6: after POST /users/{id}/roles succeeded for user u and role R, the store
\* holds the association (u, R).
C6_AssignedRoleIsStored ==
    (response.op = "assign_user_role" /\ response.status = 200)
        => <<response.user, response.role>> \in userRoles

\* C13: the committed AuditLog rows of kind role_assigned / role_removed
\* correspond one-to-one to the user-role associations actually added or removed
\* through POST /users/{id}/roles, DELETE /users/{id}/roles/{rid} and POST
\* /users/bulk/roles: one row per association added or removed, and no row for
\* a request that added or removed none.
C13_AuditRowsMatchAssociations ==
    [][(/\ response'.seq # response.seq
        /\ response'.op \in {"assign_user_role", "remove_user_role", "bulk_assign_role"})
          => Len(auditLogs') - Len(auditLogs)
                = Cardinality((userRoles' \ userRoles) \cup (userRoles \ userRoles'))]_vars

\* C14: every successful RBAC mutation through the HTTP surface (role create,
\* update, delete, permission attach and detach, role assign and remove on a
\* user) appends one AuditLog row in the transaction of the mutation.
C14_EveryMutationIsAudited ==
    [][(/\ response'.seq # response.seq
        /\ response'.op \in {"create_new_role", "update_existing_role",
                             "delete_existing_role", "assign_permissions",
                             "remove_permission", "assign_user_role", "remove_user_role"}
        /\ response'.status \in {200, 201})
          => Len(auditLogs') = Len(auditLogs) + 1]_vars

\* C24: no sequence of HTTP role operations removes a role whose is_system
\* flag is true: DELETE /roles/{id} on a system role returns 400 and leaves the
\* role, its permissions and its user assignments unchanged, and no HTTP
\* operation clears the is_system flag.
C24_SystemRolesStay ==
    [][\A r \in RoleIds :
         (RoleExists(r) /\ roles[r].is_system)
           => /\ roles'[r].exists /\ roles'[r].is_system
              /\ (/\ response'.seq # response.seq
                  /\ response'.op = "delete_existing_role"
                  /\ response'.role = r)
                    => /\ response'.status = 400
                       /\ roles' = roles
                       /\ rolePermissions' = rolePermissions
                       /\ userRoles' = userRoles]_vars

\* an authorized DELETE of the system role Admin was refused
C24_Witness ==
    /\ response.op = "delete_existing_role"
    /\ response.role = "r1"
    /\ response.status = 400
    /\ RoleExists("r1") /\ roles["r1"].is_system

\* C34: POST /roles/{id}/permissions is all-or-nothing: if any permission id
\* of the submitted list does not exist the request returns 404 and none of
\* the listed permissions is attached to the role, including those that
\* precede the unknown id in the list.
C34_AssignIsAllOrNothing ==
    [][(/\ response'.seq # response.seq
        /\ response'.op = "assign_permissions"
        /\ response'.status = 404)
          => rolePermissions' = rolePermissions]_vars

\* an authorized request for the role Admin, which does not hold p5, listed p5
\* before an unknown id and was answered 404
C34_Witness ==
    /\ response.op = "assign_permissions"
    /\ response.status = 404
    /\ response.role = "r1"
    /\ RoleExists("r1")
    /\ <<"r1", "p5">> \notin rolePermissions

-----------------------------------------------------------------------------
(* Rate limiter (core/rate_limit.py) *)

LOGIN_RATE_LIMIT_REQUESTS == 5
LOGIN_RATE_LIMIT_WINDOW == 60
LOGIN_RATE_LIMIT_BLOCK_TIME == 300

\* the pre-configured limiters: (action, max_requests, window_seconds, block_seconds)
login_rate_limiter ==
    [action |-> "login", max_requests |-> LOGIN_RATE_LIMIT_REQUESTS,
     window_seconds |-> LOGIN_RATE_LIMIT_WINDOW, block_seconds |-> LOGIN_RATE_LIMIT_BLOCK_TIME]

PASSWORD_RESET_MAX_REQUESTS == 3
PASSWORD_RESET_WINDOW == 60
PASSWORD_RESET_BLOCK_TIME == 600

password_reset_rate_limiter ==
    [action |-> "password_reset", max_requests |-> PASSWORD_RESET_MAX_REQUESTS,
     window_seconds |-> PASSWORD_RESET_WINDOW, block_seconds |-> PASSWORD_RESET_BLOCK_TIME]

\* RedisCache.ttl: the seconds a key has left, -2 for a key that is not there
cache_ttl(entry) == IF Live(entry) THEN entry.expire_at - now ELSE -2

\* a faulty comparison of the counter with the limit
limit_exceeded_strict(count, max_requests) == count > max_requests

\* "if count >= max_requests" of check_rate_limit
limit_exceeded(count, max_requests) == count >= max_requests

\* check_rate_limit: (is_allowed, remaining) and the keys after it
check_rate_limit(rl, identifier, action, max_requests, window_seconds, block_seconds) ==
    LET block_key == _get_block_key(identifier, action)
        rate_key == _get_rate_limit_key(identifier, action)
        block_ttl == cache_ttl(rl[block_key])
    IN IF block_ttl > 0
       THEN [is_allowed |-> FALSE, remaining |-> block_ttl, keys |-> rl]
       ELSE IF ~Live(rl[rate_key])
       THEN [is_allowed |-> TRUE, remaining |-> max_requests - 1,
             keys |-> [rl EXCEPT ![rate_key] =
                          [hit |-> TRUE, value |-> 1, expire_at |-> now + window_seconds]]]
       ELSE IF limit_exceeded(rl[rate_key].value, max_requests)
       THEN [is_allowed |-> FALSE, remaining |-> block_seconds,
             keys |-> [rl EXCEPT ![block_key] =
                          [hit |-> TRUE, value |-> 1, expire_at |-> now + block_seconds],
                                 ![rate_key] = NoEntry]]
       ELSE [is_allowed |-> TRUE, remaining |-> max_requests - rl[rate_key].value - 1,
             \* INCR keeps the expiry of the key
             keys |-> [rl EXCEPT ![rate_key].value = @ + 1]]

\* a faulty reset: the counter key is left in place
reset_rate_limit_block_only(rl, identifier, action) ==
    [rl EXCEPT ![_get_block_key(identifier, action)] = NoEntry]

reset_rate_limit(rl, identifier, action) ==
    [rl EXCEPT ![_get_rate_limit_key(identifier, action)] = NoEntry,
               ![_get_block_key(identifier, action)] = NoEntry]

\* RateLimiter.__call__ for the client address
RateLimiter(limiter) ==
    check_rate_limit(rateLimit, ClientIp, limiter.action, limiter.max_requests,
                     limiter.window_seconds, limiter.block_seconds)

\* where the profile (n, w, b) stands after an attempt at time t, as the
\* specification describes it: n attempts are allowed inside a window of w
\* seconds, the next one starts a block of b seconds, the first attempt after
\* the block opens a fresh window
ProfileStep(win, t, n, w, b) ==
    IF win.mode = "blocked" /\ t < win.start + b
    THEN [win EXCEPT !.allowed = FALSE, !.blocks = FALSE]
    ELSE IF win.mode = "window" /\ t < win.start + w /\ win.k < n
    THEN [win EXCEPT !.k = @ + 1, !.allowed = TRUE, !.blocks = FALSE]
    ELSE IF win.mode = "window" /\ t < win.start + w
    THEN [mode |-> "blocked", k |-> 0, start |-> t, allowed |-> FALSE, blocks |-> TRUE]
    ELSE [mode |-> "window", k |-> 1, start |-> t, allowed |-> TRUE, blocks |-> FALSE]

-----------------------------------------------------------------------------
(* Specification SpecRate: sequential login attempts from one address *)

\* the second passes, or the clock jumps to the last second of a window or of a block
RateTickSteps == {1, LOGIN_RATE_LIMIT_WINDOW - 1, LOGIN_RATE_LIMIT_BLOCK_TIME - 1}

Tick(d) ==
    /\ nticks < MaxTicks
    /\ now' = now + d
    /\ nticks' = nticks + 1
    /\ UNCHANGED <<users, rbacVars, nreq, response, authVars, rateVars, documents, extVars>>

\* a login attempt that gets as far as the limiter lets it: 429 with Retry-After,
\* or on to the handler, which refuses the wrong password with 401
login_attempt ==
    /\ nreq < MaxAttempts
    /\ LET limit == RateLimiter(login_rate_limiter)
       IN /\ rateLimit' = limit.keys
          /\ window' = ProfileStep(window, now, LOGIN_RATE_LIMIT_REQUESTS,
                                   LOGIN_RATE_LIMIT_WINDOW, LOGIN_RATE_LIMIT_BLOCK_TIME)
          /\ sinceReset' = IF sinceReset < 0 THEN sinceReset ELSE sinceReset + 1
          /\ Respond("login", IF limit.is_allowed THEN 401 ELSE 429, NoToken, None, None,
                     IF limit.is_allowed THEN {} ELSE {limit.remaining})
    /\ UNCHANGED <<now, users, rbacVars, nticks, extVars, authVars, documents>>

\* a login attempt with the right password: 429 when the limiter refuses it,
\* otherwise the handler succeeds and calls reset_rate_limit
login_success_reset ==
    /\ nreq < MaxAttempts
    /\ LET limit == RateLimiter(login_rate_limiter)
       IN IF limit.is_allowed
          THEN /\ rateLimit' = reset_rate_limit(limit.keys, ClientIp, "login")
               /\ window' = IdleWindow
               /\ sinceReset' = 0
               /\ Respond("login", 200, NoToken, None, None, {})
          ELSE /\ rateLimit' = limit.keys
               /\ window' = ProfileStep(window, now, LOGIN_RATE_LIMIT_REQUESTS,
                                        LOGIN_RATE_LIMIT_WINDOW, LOGIN_RATE_LIMIT_BLOCK_TIME)
               /\ sinceReset' = IF sinceReset < 0 THEN sinceReset ELSE sinceReset + 1
               /\ Respond("login", 429, NoToken, None, None, {limit.remaining})
    /\ UNCHANGED <<now, users, rbacVars, nticks, extVars, authVars, documents>>

InitRate ==
    /\ now = 0
    /\ users = [u \in UserIds |-> NoRow]
    /\ roles = [r \in RoleIds |-> NoRow]
    /\ rolePermissions = {}
    /\ userRoles = {}
    /\ auditLogs = <<>>
    /\ cache = [k \in CacheKeys |-> NoEntry]
    /\ nreq = 0
    /\ response = NoResponse
    /\ nticks = 0
    /\ NoAuthState /\ NoRateState /\ NoDocuments /\ NoExtState

NextRate ==
    \/ login_attempt
    \/ login_success_reset
    \/ \E d \in RateTickSteps : Tick(d)

SpecRate == InitRate /\ [][NextRate]_vars

-----------------------------------------------------------------------------
(* Properties of SpecRate *)

\* C9: for the login profile (n, w, b) = (5, 60, 300) and sequential attempts
\* of one (identifier, action): the first n attempts inside a window of w
\* seconds are allowed, the (n+1)-th gets 429 with Retry-After = b and starts a
\* block of b seconds, every attempt during the block gets 429, and the first
\* attempt after the block is allowed and opens a fresh window.
C9_RateLimitProfile ==
    response.op = "login"
        => /\ (response.status # 429) = window.allowed
           /\ window.blocks => response.body = {LOGIN_RATE_LIMIT_BLOCK_TIME}

\* n attempts passed, the (n+1)-th started a block, and the attempt after the
\* block has expired was allowed as the first of a fresh window
C9_Witness ==
    /\ response.op = "login" /\ response.status = 401
    /\ nreq >= LOGIN_RATE_LIMIT_REQUESTS + 2
    /\ window.mode = "window" /\ window.k = 1
    /\ window.start >= LOGIN_RATE_LIMIT_BLOCK_TIME
    /\ rateLimit[_get_rate_limit_key(ClientIp, "login")].value = 1

\* C19: reset_rate_limit(identifier, action) deletes both the counter key and
\* the block key of that pair, and it is called on every successful login, so
\* after a successful login from an identifier the next n login attempts from it
\* are allowed regardless of the failures counted before.
C19_ResetAfterSuccessfulLogin ==
    /\ (response.op = "login" /\ response.status = 200)
          => /\ rateLimit[_get_rate_limit_key(ClientIp, "login")] = NoEntry
             /\ rateLimit[_get_block_key(ClientIp, "login")] = NoEntry
    /\ (response.op = "login" /\ sinceReset \in 1..LOGIN_RATE_LIMIT_REQUESTS)
          => response.status # 429

\* four failures and a success inside one window, and then the n-th attempt
\* after the success is let through in that same second
C19_Witness ==
    /\ response.op = "login" /\ response.status = 401
    /\ sinceReset = LOGIN_RATE_LIMIT_REQUESTS
    /\ nreq = 2 * LOGIN_RATE_LIMIT_REQUESTS
    /\ now = 0

-----------------------------------------------------------------------------
(* Password hashing (services/security.py), refresh bindings (services/jwt.py) *)

Passwords == {"pw1", "pw2"}
Emails == {"e0", "e1", "e2"}

\* column users.email; no user row has the address "e0"
Email(u) == CASE u = "u0" -> "e0" [] u = "u1" -> "e1" [] u = "u2" -> "e2"
UserByEmail(email) == {u \in UserIds : UserExists(u) /\ Email(u) = email}

hash_password(password) == <<"bcrypt", password>>
verify_password(plain_password, hashed_password) ==
    hashed_password = hash_password(plain_password)

\* create_tokens at the current second: (access_token, refresh_token)
create_tokens(user_id) ==
    [access_token |-> create_access_token(user_id, now),
     refresh_token |-> create_refresh_token(user_id, now)]

store_refresh_token(rt, user_id, refresh_token) ==
    [rt EXCEPT ![user_id] = [hit |-> TRUE, value |-> refresh_token,
                             expire_at |-> now + RefreshLifetime]]

\* NoToken stands for None
get_stored_refresh_token(user_id) ==
    IF Live(refreshTokens[user_id]) THEN refreshTokens[user_id].value ELSE NoToken

invalidate_refresh_token(rt, user_id) == [rt EXCEPT ![user_id] = NoEntry]

\* a faulty validation: the stored binding is not compared
validate_refresh_token_unbound(user_id, refresh_token) == TRUE

validate_refresh_token(user_id, refresh_token) ==
    LET stored_token == get_stored_refresh_token(user_id) IN
    IF stored_token = NoToken THEN FALSE ELSE stored_token = refresh_token

-----------------------------------------------------------------------------
(* Password reset tokens (services/password_reset.py) *)

RESET_TOKEN_EXPIRE_MINUTES == 30

ResetTokensGenerated ==
    UNION {{resetHistory[u][i] : i \in DOMAIN resetHistory[u]} : u \in UserIds}

generate_reset_token == <<"reset", Cardinality(ResetTokensGenerated) + 1>>

\* a faulty create_password_reset_token: the entry of the prior token stays
create_password_reset_token_keeping_prior(user_id, email, token) ==
    [reset |-> [resetTokens EXCEPT ![token] =
                   [hit |-> TRUE, value |-> [user_id |-> user_id, email |-> email],
                    expire_at |-> now + RESET_TOKEN_EXPIRE_MINUTES * 60]],
     user |-> [userResetTokens EXCEPT ![user_id] =
                  [hit |-> TRUE, value |-> token,
                   expire_at |-> now + RESET_TOKEN_EXPIRE_MINUTES * 60]]]

\* create_password_reset_token: the two key families after it
create_password_reset_token(user_id, email, token) ==
    LET expire_seconds == RESET_TOKEN_EXPIRE_MINUTES * 60
        existing == userResetTokens[user_id]
        cleared == IF Live(existing)
                   THEN [resetTokens EXCEPT ![existing.value] = NoEntry]
                   ELSE resetTokens
    IN [reset |-> [cleared EXCEPT ![token] =
                      [hit |-> TRUE, value |-> [user_id |-> user_id, email |-> email],
                       expire_at |-> now + expire_seconds]],
        user |-> [userResetTokens EXCEPT ![user_id] =
                     [hit |-> TRUE, value |-> token, expire_at |-> now + expire_seconds]]]

\* verify_password_reset_token: [ok, user_id]
verify_password_reset_token(token) ==
    IF token \in ResetTokenIds /\ Live(resetTokens[token])
    THEN [ok |-> TRUE, user_id |-> resetTokens[token].value.user_id]
    ELSE [ok |-> FALSE, user_id |-> None]

invalidate_password_reset_token(token, user_id) ==
    [reset |-> [resetTokens EXCEPT ![token] = NoEntry],
     user |-> [userResetTokens EXCEPT ![user_id] = NoEntry]]

-----------------------------------------------------------------------------
(* HTTP handlers of /api/v1/auth (api/v1/auth.py) *)

\* the request is refused: no row and no binding is written by the body
AuthAnswer(op, status, token, user, detail) ==
    /\ Respond(op, status, token, user, None, {detail})
    /\ UNCHANGED <<users, authVars>>

RefreshTokensOf(user_id) == {t \in issued : t[5] = "refresh" /\ t[2] = user_id}

login(email, password) ==
    /\ nreq < MaxAuthReq
    /\ UNCHANGED <<now, rbacVars, nticks, extVars, window, sinceReset, documents>>
    /\ LET limit == RateLimiter(login_rate_limiter)
           found == UserByEmail(email)
           user == CHOOSE u \in found : TRUE
           tokens == create_tokens(user)
       IN IF ~limit.is_allowed
          THEN /\ rateLimit' = limit.keys
               /\ Respond("login", 429, NoToken, None, None, {limit.remaining})
               /\ UNCHANGED <<users, authVars>>
          ELSE IF found = {}
          THEN /\ rateLimit' = limit.keys
               /\ AuthAnswer("login", 401, NoToken, None, "Invalid email or password")
          ELSE IF ~users[user].is_active
          THEN /\ rateLimit' = limit.keys
               /\ AuthAnswer("login", 403, NoToken, user, "Account is deactivated")
          ELSE IF passwordHash[user] = NoHash
          THEN /\ rateLimit' = limit.keys
               /\ AuthAnswer("login", 400, NoToken, user, "Please use SSO to login")
          ELSE IF ~verify_password(password, passwordHash[user])
          THEN /\ rateLimit' = limit.keys
               /\ AuthAnswer("login", 401, NoToken, user, "Invalid email or password")
          ELSE /\ users' = [users EXCEPT ![user].last_login_at = now]
               /\ refreshTokens' = store_refresh_token(refreshTokens, user, tokens.refresh_token)
               /\ rateLimit' = reset_rate_limit(limit.keys, ClientIp, "login")
               /\ issued' = issued \cup {tokens.access_token, tokens.refresh_token}
               /\ Respond("login", 200, NoToken, user, None,
                          {tokens.access_token, tokens.refresh_token})
               /\ UNCHANGED <<passwordHash, resetTokens, userResetTokens, resetHistory,
                              revoked>>

refresh_token(refresh_token_value) ==
    /\ nreq < MaxAuthReq
    /\ UNCHANGED <<now, rbacVars, nticks, extVars, rateVars, documents>>
    /\ LET token_payload == decode_token(refresh_token_value)
           user_id == token_payload.sub
           tokens == create_tokens(user_id)
       IN IF refresh_token_value = NoToken
          THEN AuthAnswer("refresh_token", 401, refresh_token_value, None,
                          "No refresh token provided")
          ELSE IF ~token_payload.ok
          THEN AuthAnswer("refresh_token", 401, refresh_token_value, None,
                          "Invalid refresh token")
          ELSE IF token_payload.type # "refresh"
          THEN AuthAnswer("refresh_token", 401, refresh_token_value, None,
                          "Invalid token type")
          ELSE IF is_token_expired(token_payload)
          THEN AuthAnswer("refresh_token", 401, refresh_token_value, None,
                          "Refresh token has expired")
          ELSE IF ~validate_refresh_token(user_id, refresh_token_value)
          THEN AuthAnswer("refresh_token", 401, refresh_token_value, user_id,
                          "Refresh token has been revoked")
          ELSE IF ~UserExists(user_id) \/ ~users[user_id].is_active
          THEN AuthAnswer("refresh_token", 401, refresh_token_value, user_id,
                          "User not found or inactive")
          ELSE /\ refreshTokens' =
                      store_refresh_token(refreshTokens, user_id, tokens.refresh_token)
               /\ issued' = issued \cup {tokens.access_token, tokens.refresh_token}
               /\ Respond("refresh_token", 200, refresh_token_value, user_id, None,
                          {tokens.access_token, tokens.refresh_token})
               /\ UNCHANGED <<users, passwordHash, resetTokens, userResetTokens,
                              resetHistory, revoked>>

logout(token) ==
    /\ nreq < MaxAuthReq
    /\ UNCHANGED <<now, rbacVars, nticks, extVars, rateVars, documents>>
    /\ LET current_user == get_current_active_user(token)
       IN IF current_user.status # 200
          THEN AuthAnswer("logout", current_user.status, token, None, "Not authenticated")
          ELSE /\ refreshTokens' = invalidate_refresh_token(refreshTokens, current_user.user)
               /\ revoked' = revoked \cup RefreshTokensOf(current_user.user)
               /\ Respond("logout", 200, token, current_user.user, None, {})
               /\ UNCHANGED <<users, passwordHash, resetTokens, userResetTokens, issued,
                              resetHistory>>

change_password(token, current_password, new_password) ==
    /\ nreq < MaxAuthReq
    /\ UNCHANGED <<now, rbacVars, nticks, extVars, rateVars, documents>>
    /\ LET current_user == get_current_active_user(token)
       IN IF current_user.status # 200
          THEN AuthAnswer("change_password", current_user.status, token, None,
                          "Not authenticated")
          ELSE IF passwordHash[current_user.user] = NoHash
          THEN AuthAnswer("change_password", 400, token, current_user.user,
                          "Cannot change password for SSO users")
          ELSE IF ~verify_password(current_password, passwordHash[current_user.user])
          THEN AuthAnswer("change_password", 400, token, current_user.user,
                          "Current password is incorrect")
          ELSE /\ passwordHash' =
                      [passwordHash EXCEPT ![current_user.user] = hash_password(new_password)]
               /\ refreshTokens' = invalidate_refresh_token(refreshTokens, current_user.user)
               /\ revoked' = revoked \cup RefreshTokensOf(current_user.user)
               /\ Respond("change_password", 200, token, current_user.user, None, {})
               /\ UNCHANGED <<users, resetTokens, userResetTokens, issued, resetHistory>>

\* an answer that tells whether a reset token was mailed
MessageResponseTelling(mailed) ==
    IF mailed
    THEN [status |-> 200, body |-> {"If the email exists, a password reset link has been sent"}]
    ELSE [status |-> 404, body |-> {"User not found"}]

\* "Always return success for security (don't reveal if email exists)"
MessageResponse(mailed) ==
    [status |-> 200, body |-> {"If the email exists, a password reset link has been sent"}]

request_password_reset(email) ==
    /\ nreq < MaxAuthReq
    /\ UNCHANGED <<now, rbacVars, nticks, extVars, window, sinceReset, documents>>
    /\ LET limit == RateLimiter(password_reset_rate_limiter)
           found == UserByEmail(email)
           user == CHOOSE u \in found : TRUE
           token == generate_reset_token
           created == create_password_reset_token(user, email, token)
       IN IF ~limit.is_allowed
          THEN /\ rateLimit' = limit.keys
               /\ Respond("request_password_reset", 429, NoToken, None, None,
                          {limit.remaining})
               /\ UNCHANGED <<users, authVars>>
          ELSE IF found = {} \/ passwordHash[user] = NoHash \/ ~users[user].is_active
          THEN /\ rateLimit' = limit.keys
               /\ Respond("request_password_reset", MessageResponse(FALSE).status, NoToken,
                          None, None, MessageResponse(FALSE).body)
               /\ UNCHANGED <<users, authVars>>
          ELSE /\ token \in ResetTokenIds
               /\ rateLimit' = limit.keys
               /\ resetTokens' = created.reset
               /\ userResetTokens' = created.user
               \* the mail delivers the token to the user
               /\ resetHistory' = [resetHistory EXCEPT ![user] = Append(@, token)]
               /\ Respond("request_password_reset", MessageResponse(TRUE).status, token,
                          user, None, MessageResponse(TRUE).body)
               /\ UNCHANGED <<users, passwordHash, refreshTokens, issued, revoked>>

confirm_password_reset(token, new_password) ==
    /\ nreq < MaxAuthReq
    /\ UNCHANGED <<now, rbacVars, nticks, extVars, rateVars, documents>>
    /\ LET token_data == verify_password_reset_token(token)
           user_id == token_data.user_id
           invalidated == invalidate_password_reset_token(token, user_id)
       IN IF ~token_data.ok
          THEN AuthAnswer("confirm_password_reset", 400, token, None,
                          "Invalid or expired reset token")
          ELSE IF ~UserExists(user_id) \/ ~users[user_id].is_active
          THEN AuthAnswer("confirm_password_reset", 400, token, user_id,
                          "User not found or inactive")
          ELSE /\ passwordHash' = [passwordHash EXCEPT ![user_id] = hash_password(new_password)]
               /\ resetTokens' = invalidated.reset
               /\ userResetTokens' = invalidated.user
               /\ refreshTokens' = invalidate_refresh_token(refreshTokens, user_id)
               /\ revoked' = revoked \cup RefreshTokensOf(user_id)
               /\ Respond("confirm_password_reset", 200, token, user_id, None, {})
               /\ UNCHANGED <<users, issued, resetHistory>>

-----------------------------------------------------------------------------
(* Specification SpecAuth: sequential requests to /api/v1/auth *)

\* the second passes, or the clock jumps by the lifetime of a reset token or of
\* a refresh token
AuthTickSteps == {1, RESET_TOKEN_EXPIRE_MINUTES * 60, RefreshLifetime}

\* u1 is an active local account; u2 is a local account, active or not, or an
\* active account without a password (single sign-on)
InitAuth ==
    /\ now = 0
    /\ \E kind \in {"local", "inactive", "sso"} :
          /\ users = [u \in UserIds |->
                         CASE u = "u0" -> NoRow
                           [] u = "u1" -> UserRow(TRUE)
                           [] u = "u2" -> UserRow(kind # "inactive")]
          /\ passwordHash = [u \in UserIds |->
                                CASE u = "u0" -> NoHash
                                  [] u = "u1" -> hash_password("pw1")
                                  [] u = "u2" -> IF kind = "sso" THEN NoHash
                                                 ELSE hash_password("pw1")]
    /\ roles = [r \in RoleIds |-> NoRow]
    /\ rolePermissions = {}
    /\ userRoles = {}
    /\ auditLogs = <<>>
    /\ cache = [k \in CacheKeys |-> NoEntry]
    /\ nreq = 0
    /\ response = NoResponse
    /\ nticks = 0
    /\ refreshTokens = [u \in UserIds |-> NoEntry]
    /\ resetTokens = [t \in ResetTokenIds |-> NoEntry]
    /\ userResetTokens = [u \in UserIds |-> NoEntry]
    /\ issued = {}
    /\ resetHistory = [u \in UserIds |-> <<>>]
    /\ revoked = {}
    /\ NoRateState /\ NoDocuments /\ NoExtState

NextAuth ==
    \/ \E email \in Emails, password \in Passwords : login(email, password)
    \/ \E t \in issued \cup {NoToken, Garbage} : refresh_token(t)
    \/ \E t \in issued \cup {NoToken} : logout(t)
    \/ \E t \in issued \cup {NoToken}, current_password \in Passwords :
          change_password(t, current_password, "pw2")
    \/ \E email \in Emails : request_password_reset(email)
    \/ \E t \in ResetTokenIds, new_password \in Passwords : confirm_password_reset(t, new_password)
    \/ \E d \in AuthTickSteps : nticks < MaxAuthTicks /\ Tick(d)

SpecAuth == InitAuth /\ [][NextAuth]_vars

-----------------------------------------------------------------------------
(* Properties of SpecAuth *)

\* the refresh token of a token pair returned by login or refresh
NewRefreshToken(body) == CHOOSE t \in body : t[5] = "refresh"

\* C3: after POST /auth/refresh succeeded with refresh token t of user u and
\* returned (a', t'), validate_refresh_token(u, t) is false and
\* validate_refresh_token(u, t') is true.
C3_RefreshRotatesToken ==
    (response.op = "refresh_token" /\ response.status = 200)
        => /\ ~validate_refresh_token(response.user, response.token)
           /\ validate_refresh_token(response.user, NewRefreshToken(response.body))

\* C4: after logout(u), a successful change-password by u or a successful
\* password-reset confirm for u, no refresh token issued to u before that
\* operation validates.
C4_RevokedTokensNeverValidate ==
    \A t \in revoked : ~validate_refresh_token(t[2], t)

\* C17: at every moment at most one refresh token validates for a given user:
\* each login or refresh for u replaces the single stored binding, so a refresh
\* token obtained by an earlier login of the same user stops validating as
\* soon as a later login of that user completes.
C17_EarlierTokensStopValidating ==
    [][(/\ response'.seq # response.seq
        /\ response'.op = "login"
        /\ response'.status = 200)
          => \A t \in RefreshTokensOf(response'.user) :
                ~(Live(refreshTokens'[response'.user])
                    /\ refreshTokens'[response'.user].value = t)]_vars

\* C35: every refresh token issued to a user differs from every refresh token
\* issued to that user before, also when two issuances fall within the same
\* clock second, so the token stored by a rotation never equals the token that
\* was just rotated out.
C35_RefreshTokensAreFresh ==
    [][(/\ response'.seq # response.seq
        /\ response'.op \in {"login", "refresh_token"}
        /\ response'.status = 200)
          => /\ NewRefreshToken(response'.body) \notin issued
             /\ response'.op = "refresh_token"
                  => refreshTokens'[response'.user].value # response'.token]_vars

\* what a refresh token is to the endpoint, told from the token itself
IsJwt(t) == t # NoToken /\ t # Garbage
InvalidCredentials(t) == ~IsJwt(t) \/ t[3] <= now \/ t[5] # "refresh"
InvalidCredentialsDetails ==
    {"No refresh token provided", "Invalid refresh token", "Invalid token type",
     "Refresh token has expired"}
NotTheBinding(t) ==
    ~InvalidCredentials(t)
        /\ ~(Live(refreshTokens[t[2]]) /\ refreshTokens[t[2]].value = t)

\* C18: a refresh request that fails returns 401 and leaves the user's stored
\* refresh binding unchanged; an undecodable, expired or non-refresh-type token
\* is reported as invalid credentials, while a token that decodes as an
\* unexpired refresh token but differs from the stored binding (or has no stored
\* binding) is reported as revoked.
C18_RefreshFailures ==
    [][(response'.seq # response.seq /\ response'.op = "refresh_token")
          => /\ response'.status # 200
                  => response'.status = 401 /\ refreshTokens' = refreshTokens
             /\ InvalidCredentials(response'.token)
                  => /\ response'.status = 401
                     /\ response'.body \subseteq InvalidCredentialsDetails
             /\ NotTheBinding(response'.token)
                  => /\ response'.status = 401
                     /\ response'.body = {"Refresh token has been revoked"}]_vars

\* a refresh token of an earlier login, not expired, was presented after a later
\* login had replaced the binding, and was refused as revoked
C18_Witness ==
    /\ response.op = "refresh_token" /\ response.status = 401
    /\ response.body = {"Refresh token has been revoked"}
    /\ IsJwt(response.token) /\ response.token[5] = "refresh" /\ response.token[3] > now
    /\ Live(refreshTokens[response.token[2]])
    /\ refreshTokens[response.token[2]].value # response.token

\* no account with the email accepts the password
WrongPassword(email, password) ==
    \A u \in UserByEmail(email) :
        passwordHash[u] = NoHash \/ ~verify_password(password, passwordHash[u])

\* C22: POST /auth/login with a wrong password returns the same status and
\* detail for an email of an existing account, whatever the account's state
\* (active or inactive, local or OIDC-only), as for an email of no account:
\* 401 "Invalid email or password".
C22_LoginHidesAccounts ==
    [][\A email \in Emails, password \in Passwords :
         (login(email, password) /\ WrongPassword(email, password)
            /\ RateLimiter(login_rate_limiter).is_allowed)
              => /\ response'.status = 401
                 /\ response'.body = {"Invalid email or password"}]_vars

\* C23: POST /auth/password/reset returns status 200 with the same message for
\* every email the rate limiter lets through, whether it belongs to no user,
\* to an inactive user, to an OIDC-only user or to an active local user.
C23_ResetRequestHidesAccounts ==
    [][\A email \in Emails :
         (request_password_reset(email)
            /\ RateLimiter(password_reset_rate_limiter).is_allowed)
              => /\ response'.status = 200
                 /\ response'.body =
                       {"If the email exists, a password reset link has been sent"}]_vars

\* a reset was requested for an address without a usable local account, after
\* one that was mailed a token: both were answered alike
C23_Witness ==
    /\ response.op = "request_password_reset"
    /\ response.status = 200
    /\ response.token = NoToken
    /\ \E u \in UserIds : resetHistory[u] # <<>>
    /\ \E u \in UserIds : UserExists(u) /\ (~users[u].is_active \/ passwordHash[u] = NoHash)

\* a reset token mailed to a user before the user's latest one
Superseded(token) ==
    \E u \in UserIds : \E i \in DOMAIN resetHistory[u] :
        resetHistory[u][i] = token /\ i < Len(resetHistory[u])

LatestResetToken(u) == resetHistory[u][Len(resetHistory[u])]

\* C10: once a reset token T2 has been issued for a user who held reset token
\* T1, a confirm presenting T1 fails with 400 "Invalid or expired reset token"
\* and leaves the password unchanged; a confirm succeeds only with the latest
\* token issued for the user.
C10_ResetSupersession ==
    [][(response'.seq # response.seq /\ response'.op = "confirm_password_reset")
         => /\ Superseded(response'.token)
                  => /\ response'.status = 400
                     /\ response'.body = {"Invalid or expired reset token"}
                     /\ passwordHash' = passwordHash
            /\ response'.status = 200
                  => response'.token = LatestResetToken(response'.user)]_vars

\* T1 and T2 were mailed to u1 within T1's lifetime, the confirm with T1 was
\* refused and the password is the old one, and T2 is still accepted
C10_Witness ==
    /\ response.op = "confirm_password_reset" /\ response.status = 400
    /\ response.token = <<"reset", 1>>
    /\ resetHistory["u1"] = <<<<"reset", 1>>, <<"reset", 2>>>>
    /\ now < RESET_TOKEN_EXPIRE_MINUTES * 60
    /\ passwordHash["u1"] = hash_password("pw1")
    /\ verify_password_reset_token(<<"reset", 2>>).ok

-----------------------------------------------------------------------------
(* Documents and search (services/document.py, services/search.py) *)

Titles == {"alpha", "beta"}

\* documents in the order of "ORDER BY created_at DESC": ids are handed out in
\* the order d1, d2, d3
DocOrder == <<"d3", "d2", "d1">>

DocExists(d) == documents[d].exists

\* the rows a query with the given owner filter selects, newest first
DocsSelected(owner_id, matching) ==
    SelectSeq(DocOrder, LAMBDA d : /\ DocExists(d)
                                   /\ d \in matching
                                   /\ (owner_id = None \/ documents[d].owner_id = owner_id))

\* OFFSET (page - 1) * page_size LIMIT page_size
PageOf(rows, page, page_size) ==
    LET offset == (page - 1) * page_size
    IN IF offset >= Len(rows) THEN <<>>
       ELSE SubSeq(rows, offset + 1,
                   IF offset + page_size < Len(rows) THEN offset + page_size ELSE Len(rows))

\* list_documents: (documents, total)
list_documents(owner_id, page, page_size) ==
    [documents |-> PageOf(DocsSelected(owner_id, DocIds), page, page_size),
     total |-> Len(DocsSelected(owner_id, DocIds))]

\* the documents a query term matches: full-text, fuzzy and ILIKE matching all
\* select on the text of the document, here its title
Matching(query) == {d \in DocIds : DocExists(d) /\ documents[d].title = query}

\* SearchService.search with _build_filter_conditions: (results, total)
search(query, filters_owner_id, page, page_size) ==
    [documents |-> PageOf(DocsSelected(filters_owner_id, Matching(query)), page, page_size),
     total |-> Len(DocsSelected(filters_owner_id, Matching(query)))]

\* SearchService.get_suggestions
get_suggestions(query, limit, owner_id) ==
    PageOf(DocsSelected(owner_id, Matching(query)), 1, limit)

\* a faulty override in search_documents: an owner_id the caller supplies is kept
owner_filter_keeping_supplied(can_read_all, filters_owner_id, current_user_id) ==
    IF ~can_read_all /\ filters_owner_id = None THEN current_user_id ELSE filters_owner_id

\* search_documents: the owner_id of the filters the search runs with
owner_filter(can_read_all, filters_owner_id, current_user_id) ==
    IF ~can_read_all THEN current_user_id ELSE filters_owner_id

\* a faulty ownership test: the comparison of the owner is inverted
not_permitted_inverted(can_all, owner_id, current_user_id) ==
    ~can_all /\ owner_id = current_user_id

\* "if not can_..._all and document.owner_id != current_user.id"
not_permitted(can_all, owner_id, current_user_id) ==
    ~can_all /\ owner_id # current_user_id

-----------------------------------------------------------------------------
(* HTTP handlers of /api/v1/documents and /api/v1/search *)

\* the response with the document id of the path and, for a listing, the total
RespondDoc(op, status, token, user, document_id, body, total) ==
    /\ response' = [seq |-> nreq + 1, op |-> op, status |-> status, token |-> token,
                    user |-> user, role |-> None, body |-> body, doc |-> document_id,
                    total |-> total]
    /\ nreq' = nreq + 1

FreeDocIds == {d \in DocIds : ~documents[d].exists /\ ~documents[d].deleted}

\* the id the database gives the new row
NextDocId == CHOOSE d \in FreeDocIds : TRUE

list_user_documents(token, page, page_size) ==
    /\ nreq < MaxDocReq
    /\ UNCHANGED <<now, users, roles, rolePermissions, userRoles, auditLogs, nticks, extVars,
                   authVars, rateVars, documents>>
    /\ LET current_user == get_current_active_user(token)
           can_read_all == has_permission(current_user.user, "documents", "read", "all")
           owner_id == IF can_read_all THEN None ELSE current_user.user
           listed == list_documents(owner_id, page, page_size)
       IN IF current_user.status # 200
          THEN /\ RespondDoc("list_user_documents", current_user.status, token, None, None,
                             {}, 0)
               /\ cache' = cache
          ELSE /\ RespondDoc("list_user_documents", 200, token, current_user.user, None,
                             Range(listed.documents), listed.total)
               /\ cache' = CacheAfterGetPermissions(cache, current_user.user)

create_new_document(token, title) ==
    /\ UNCHANGED <<now, users, roles, rolePermissions, userRoles, auditLogs, nticks, extVars,
                   authVars, rateVars>>
    /\ LET auth == permission_checker(token, "documents", "create", "own")
       IN /\ cache' = CacheAfterGate(token)
          /\ IF auth.status # 200
             THEN /\ RespondDoc("create_new_document", auth.status, token, None, None, {}, 0)
                  /\ UNCHANGED documents
             ELSE /\ FreeDocIds # {}
                  /\ documents' = [documents EXCEPT ![NextDocId] =
                                      [exists |-> TRUE, deleted |-> FALSE, title |-> title,
                                       owner_id |-> auth.user]]
                  /\ RespondDoc("create_new_document", 201, token, auth.user, NextDocId,
                                {NextDocId}, 0)

get_document_details(token, document_id) ==
    /\ nreq < MaxDocReq
    /\ UNCHANGED <<now, users, roles, rolePermissions, userRoles, auditLogs, nticks, extVars,
                   authVars, rateVars, documents>>
    /\ LET current_user == get_current_active_user(token)
           can_read_all == has_permission(current_user.user, "documents", "read", "all")
       IN IF current_user.status # 200
          THEN /\ RespondDoc("get_document_details", current_user.status, token, None,
                             document_id, {}, 0)
               /\ cache' = cache
          ELSE IF ~DocExists(document_id)
          THEN /\ RespondDoc("get_document_details", 404, token, current_user.user,
                             document_id, {}, 0)
               /\ cache' = cache
          ELSE /\ cache' = CacheAfterGetPermissions(cache, current_user.user)
               /\ IF not_permitted(can_read_all, documents[document_id].owner_id,
                                   current_user.user)
                  THEN RespondDoc("get_document_details", 403, token, current_user.user,
                                  document_id, {}, 0)
                  ELSE RespondDoc("get_document_details", 200, token, current_user.user,
                                  document_id, {document_id}, 0)

update_existing_document(token, document_id, title) ==
    /\ nreq < MaxDocReq
    /\ UNCHANGED <<now, users, roles, rolePermissions, userRoles, auditLogs, nticks, extVars,
                   authVars, rateVars>>
    /\ LET current_user == get_current_active_user(token)
           can_update_all == has_permission(current_user.user, "documents", "update", "all")
       IN IF current_user.status # 200
          THEN /\ RespondDoc("update_existing_document", current_user.status, token, None,
                             document_id, {}, 0)
               /\ UNCHANGED <<cache, documents>>
          ELSE IF ~DocExists(document_id)
          THEN /\ RespondDoc("update_existing_document", 404, token, current_user.user,
                             document_id, {}, 0)
               /\ UNCHANGED <<cache, documents>>
          ELSE /\ cache' = CacheAfterGetPermissions(cache, current_user.user)
               /\ IF not_permitted(can_update_all, documents[document_id].owner_id,
                                   current_user.user)
                  THEN /\ RespondDoc("update_existing_document", 403, token,
                                     current_user.user, document_id, {}, 0)
                       /\ UNCHANGED documents
                  ELSE /\ documents' = [documents EXCEPT ![document_id].title = title]
                       /\ RespondDoc("update_existing_document", 200, token,
                                     current_user.user, document_id, {document_id}, 0)

delete_existing_document(token, document_id) ==
    /\ nreq < MaxDocReq
    /\ UNCHANGED <<now, users, roles, rolePermissions, userRoles, auditLogs, nticks, extVars,
                   authVars, rateVars>>
    /\ LET current_user == get_current_active_user(token)
           can_delete_all == has_permission(current_user.user, "documents", "delete", "all")
       IN IF current_user.status # 200
          THEN /\ RespondDoc("delete_existing_document", current_user.status, token, None,
                             document_id, {}, 0)
               /\ UNCHANGED <<cache, documents>>
          ELSE IF ~DocExists(document_id)
          THEN /\ RespondDoc("delete_existing_document", 404, token, current_user.user,
                             document_id, {}, 0)
               /\ UNCHANGED <<cache, documents>>
          ELSE /\ cache' = CacheAfterGetPermissions(cache, current_user.user)
               /\ IF not_permitted(can_delete_all, documents[document_id].owner_id,
                                   current_user.user)
                  THEN /\ RespondDoc("delete_existing_document", 403, token,
                                     current_user.user, document_id, {}, 0)
                       /\ UNCHANGED documents
                  ELSE /\ documents' = [documents EXCEPT ![document_id] = DeletedRow]
                       /\ RespondDoc("delete_existing_document", 200, token,
                                     current_user.user, document_id, {}, 0)

\* POST /search; `doc` of the response records the owner_id the caller supplied
search_documents(token, query, filters_owner_id, page, page_size) ==
    /\ nreq < MaxDocReq
    /\ UNCHANGED <<now, users, roles, rolePermissions, userRoles, auditLogs, nticks, extVars,
                   authVars, rateVars, documents>>
    /\ LET current_user == get_current_active_user(token)
           can_read_all == has_permission(current_user.user, "documents", "read", "all")
           found == search(query,
                           owner_filter(can_read_all, filters_owner_id, current_user.user),
                           page, page_size)
       IN IF current_user.status # 200
          THEN /\ RespondDoc("search_documents", current_user.status, token, None,
                             filters_owner_id, {}, 0)
               /\ cache' = cache
          ELSE /\ RespondDoc("search_documents", 200, token, current_user.user,
                             filters_owner_id, Range(found.documents), found.total)
               /\ cache' = CacheAfterGetPermissions(cache, current_user.user)

get_search_suggestions(token, q, limit) ==
    /\ nreq < MaxDocReq
    /\ UNCHANGED <<now, users, roles, rolePermissions, userRoles, auditLogs, nticks, extVars,
                   authVars, rateVars, documents>>
    /\ LET current_user == get_current_active_user(token)
           can_read_all == has_permission(current_user.user, "documents", "read", "all")
           owner_id == IF can_read_all THEN None ELSE current_user.user
       IN IF current_user.status # 200
          THEN /\ RespondDoc("get_search_suggestions", current_user.status, token, None,
                             None, {}, 0)
               /\ cache' = cache
          ELSE /\ RespondDoc("get_search_suggestions", 200, token, current_user.user, None,
                             Range(get_suggestions(q, limit, owner_id)), 0)
               /\ cache' = CacheAfterGetPermissions(cache, current_user.user)

-----------------------------------------------------------------------------
(* SpecDocs: the document and search endpoints over a database with two owners *)

DocTokens ==
    {NoToken, create_access_token("u1", RbacNow), create_access_token("u2", RbacNow),
     create_access_token("u2", 0)}

\* (page, page_size) of a listing or search; limit of the suggestions
Pages == {<<1, 20>>, <<2, 1>>}
Limits == {1, 10}
OwnerFilters == {None, "u1", "u2"}

NoDocResponse ==
    [seq |-> 0, op |-> "none", status |-> 0, token |-> NoToken, user |-> None,
     role |-> None, body |-> {}, doc |-> None, total |-> 0]

\* the roles Admin and User of the seed and a third role that is the seed's Viewer,
\* a team reader or a reader of all documents; u1 and u2 each own one document
InitDocs ==
    /\ now = RbacNow
    /\ users = [u \in UserIds |-> IF u = "u0" THEN NoRow ELSE UserRow(TRUE)]
    /\ roles = [r \in RoleIds |->
                   [exists |-> TRUE, deleted |-> FALSE,
                    name |-> CASE r = "r1" -> "Admin" [] r = "r2" -> "User"
                               [] r = "r3" -> "Viewer",
                    description |-> "d1", is_system |-> TRUE]]
    /\ \E third \in {{"p10"}, {"p4", "p5"}, {"p6", "p5"}} :
          rolePermissions = {<<"r1", p>> : p \in {"p6", "p7", "p8", "p9"}}
                               \cup {<<"r2", p>> : p \in {"p5", "p9", "p10", "p11"}}
                               \cup {<<"r3", p>> : p \in third}
    /\ \E r1 \in RoleIds, held \in {{}, {"r1"}, {"r2"}, {"r3"}} :
          userRoles = {<<"u1", r1>>} \cup {<<"u2", r>> : r \in held}
    /\ auditLogs = <<>>
    /\ cache = [k \in CacheKeys |-> NoEntry]
    /\ nreq = 0
    /\ response = NoDocResponse
    /\ nticks = 0
    /\ \E title \in Titles :
          documents = [d \in DocIds |->
                          CASE d = "d1" -> [exists |-> TRUE, deleted |-> FALSE,
                                            title |-> "alpha", owner_id |-> "u1"]
                            [] d = "d2" -> [exists |-> TRUE, deleted |-> FALSE,
                                            title |-> title, owner_id |-> "u2"]
                            [] d = "d3" -> NoRow]
    /\ NoAuthState /\ NoRateState /\ NoExtState

NextDocs ==
    \/ \E token \in DocTokens, page \in Pages : list_user_documents(token, page[1], page[2])
    \/ \E token \in DocTokens, title \in Titles :
          nreq < MaxDocReq /\ create_new_document(token, title)
    \/ \E token \in DocTokens, document_id \in DocIds :
          get_document_details(token, document_id)
    \/ \E token \in DocTokens, document_id \in DocIds, title \in Titles :
          update_existing_document(token, document_id, title)
    \/ \E token \in DocTokens, document_id \in DocIds :
          delete_existing_document(token, document_id)
    \/ \E token \in DocTokens, query \in Titles, filters_owner_id \in OwnerFilters,
          page \in Pages :
          search_documents(token, query, filters_owner_id, page[1], page[2])
    \/ \E token \in DocTokens, q \in Titles, limit \in Limits :
          get_search_suggestions(token, q, limit)

SpecDocs == InitDocs /\ [][NextDocs]_vars

-----------------------------------------------------------------------------
(* Properties of SpecDocs *)

\* the principal holds a permission that satisfies documents:<action>:all
HoldsAll(u, action) ==
    \E p \in EffectivePermissions(u) : Satisfies(p, "documents", action, "all")

OwnedBy(u) == {d \in DocIds : documents[d].exists /\ documents[d].owner_id = u}

\* C7: for a principal for whom has_permission(documents, read, all) is false,
\* every document returned by POST /search and every suggestion returned by
\* GET /search/suggestions is owned by the principal, whatever owner_id the
\* caller supplies in the filters.
C7_SearchReturnsOwnDocuments ==
    (/\ response.op \in {"search_documents", "get_search_suggestions"}
     /\ response.status = 200
     /\ ~HoldsAll(response.user, "read"))
        => /\ response.body \subseteq OwnedBy(response.user)
           /\ response.op = "search_documents" => response.total <= Cardinality(OwnedBy(response.user))

\* u2, who cannot read all documents, searched with the owner_id of u1 for a term
\* that a document of u1 matches, and was answered with a document of their own
C7_Witness ==
    /\ response.op = "search_documents"
    /\ response.status = 200
    /\ response.user = "u2"
    /\ response.doc = "u1"
    /\ ~HoldsAll("u2", "read")
    /\ response.body # {}
    /\ \E d \in OwnedBy("u1"), e \in response.body : documents[d].title = documents[e].title

DocAction(op) ==
    CASE op = "get_document_details" -> "read"
      [] op = "update_existing_document" -> "update"
      [] op = "delete_existing_document" -> "delete"

\* C8: a principal who does not hold documents:<action>:all can never read, list,
\* update or delete a document owned by another user: GET /documents returns only
\* the principal's documents with total counting only those, and GET/PUT/DELETE
\* /documents/{id} on another user's document returns 403 and leaves the document
\* unchanged.
C8_OthersDocumentsOutOfReach ==
    [][/\ (/\ response'.seq # response.seq
           /\ response'.op = "list_user_documents"
           /\ response'.status = 200
           /\ ~HoldsAll(response'.user, "read"))
              => /\ response'.body \subseteq OwnedBy(response'.user)
                 /\ response'.total = Cardinality(OwnedBy(response'.user))
       /\ (/\ response'.seq # response.seq
           /\ response'.op \in {"get_document_details", "update_existing_document",
                                "delete_existing_document"}
           /\ response'.user # None
           /\ DocExists(response'.doc)
           /\ documents[response'.doc].owner_id # response'.user
           /\ ~HoldsAll(response'.user, DocAction(response'.op)))
              => /\ response'.status = 403
                 /\ response'.body = {}
                 /\ documents' = documents]_vars

\* u2, who holds documents:update:own only, sent PUT for the document of u1 and
\* was refused, and listing is also exercised by principals without read:all
C8_Witness ==
    /\ response.op = "update_existing_document"
    /\ response.status = 403
    /\ response.user = "u2"
    /\ response.doc = "d1"
    /\ documents["d1"].exists /\ documents["d1"].owner_id = "u1"
    /\ <<"u2", "r2">> \in userRoles
    /\ ~HoldsAll("u2", "update")

\* the principal holds a documents:<action> permission at some scope
HoldsAtSomeScope(u, action) ==
    \E p \in EffectivePermissions(u) : Satisfies(p, "documents", action, "own")

\* C25: a principal who holds no documents:update permission at any scope
\* cannot update any document, one who holds no documents:delete permission
\* cannot delete any document, and one who holds no documents:read permission
\* cannot read any document, including documents the principal owns; a
\* principal whose only role is Viewer cannot modify or delete a document.
C25_NoPermissionNoAccess ==
    [][(/\ response'.seq # response.seq
        /\ response'.op \in {"get_document_details", "update_existing_document",
                             "delete_existing_document"}
        /\ response'.user # None
        /\ ~HoldsAtSomeScope(response'.user, DocAction(response'.op)))
          => /\ response'.status # 200
             /\ documents' = documents]_vars

-----------------------------------------------------------------------------
(* SpecCache: the RBAC cache over time, with operations on it that may fail *)

\* the second passes, or the clock jumps to the last second of a cache entry
CacheTickSteps == {1, PERMISSIONS_CACHE_TTL - 1}

CacheTokens == {create_access_token("u1", RbacNow), create_access_token("u2", RbacNow)}

\* Redis stops answering: from now on every cache operation raises inside RedisCache
redis_outage ==
    /\ ~cacheDown
    /\ cacheDown' = TRUE
    /\ UNCHANGED <<now, users, rbacVars, nreq, response, nticks, authVars, rateVars,
                   documents, permissionRows, inflight, oidcStates, identity>>

redis_recovery ==
    /\ cacheDown
    /\ cacheDown' = FALSE
    /\ UNCHANGED <<now, users, rbacVars, nreq, response, nticks, authVars, rateVars,
                   documents, permissionRows, inflight, oidcStates, identity>>

\* the seeded database of SpecRbac, both users active
InitCache ==
    /\ now = RbacNow
    /\ users = [u \in UserIds |-> IF u = "u0" THEN NoRow ELSE UserRow(TRUE)]
    /\ roles = [r \in RoleIds |->
                   CASE r = "r1" -> [exists |-> TRUE, deleted |-> FALSE, name |-> "Admin",
                                     description |-> "d1", is_system |-> TRUE]
                     [] r = "r2" -> [exists |-> TRUE, deleted |-> FALSE, name |-> "Editor",
                                     description |-> "d1", is_system |-> FALSE]
                     [] r = "r3" -> NoRow]
    /\ rolePermissions = {<<"r1", "p1">>, <<"r1", "p2">>, <<"r1", "p3">>,
                          <<"r2", "p4">>, <<"r2", "p5">>}
    /\ \E held \in SUBSET {"r1", "r2"} :
          userRoles = {<<"u1", "r1">>} \cup {<<"u2", r>> : r \in held}
    /\ auditLogs = <<>>
    /\ cache = [k \in CacheKeys |-> NoEntry]
    /\ nreq = 0
    /\ response = NoResponse
    /\ nticks = 0
    /\ NoAuthState /\ NoRateState /\ NoDocuments /\ NoExtState

NextCache ==
    \/ \E token \in CacheTokens, role_name \in CheckedRoleNames : role_checker(token, role_name)
    \/ \E token \in CacheTokens, role_id \in {"r1", "r2"}, permission_ids \in PermissionIdLists :
          assign_permissions(token, role_id, permission_ids)
    \/ \E token \in CacheTokens, role_id \in {"r1", "r2"}, permission_id \in RemoveInputs :
          remove_permission(token, role_id, permission_id)
    \/ \E token \in CacheTokens, role_id \in {"r1", "r2"} :
          update_existing_role(token, role_id, "Guest", None)
    \/ \E d \in CacheTickSteps : Tick(d)
    \/ redis_outage
    \/ redis_recovery

SpecCache == InitCache /\ [][NextCache]_vars

-----------------------------------------------------------------------------
(* Properties of SpecCache *)

-----------------------------------------------------------------------------
(* SpecConfirm: POST /auth/password/reset/confirm served concurrently. A request
   gives way to the others at its awaits: after the read of the token entry and
   after the commit of the new password hash. *)

Proceed(p, pc, op, token, arg, user_id) ==
    /\ inflight' = [inflight EXCEPT ![p] =
                       [pc |-> pc, op |-> op, token |-> token, arg |-> arg,
                        user_id |-> user_id, status |-> 0]]
    /\ UNCHANGED <<nreq, response>>

Finish(p, status, detail) ==
    /\ inflight' = [inflight EXCEPT ![p].pc = "done", ![p].status = status]
    /\ Respond(inflight[p].op, status, inflight[p].token, inflight[p].user_id, None, {detail})

\* "token_data = await verify_password_reset_token(request.token)"
confirm_verify(p, token, new_password) ==
    /\ inflight[p].pc = "idle"
    /\ UNCHANGED <<now, users, rbacVars, nticks, authVars, rateVars, documents, cacheDown,
                   permissionRows,
                   oidcStates, identity>>
    /\ LET token_data == verify_password_reset_token(token)
       IN IF ~token_data.ok
          THEN /\ inflight' = [inflight EXCEPT ![p] =
                                  [pc |-> "done", op |-> "confirm_password_reset",
                                   token |-> token, arg |-> new_password,
                                   user_id |-> None, status |-> 400]]
               /\ Respond("confirm_password_reset", 400, token, None, None,
                          {"Invalid or expired reset token"})
          ELSE Proceed(p, "verified", "confirm_password_reset", token, new_password,
                       token_data.user_id)

\* the user is read, the new hash is set and committed
confirm_commit(p) ==
    /\ inflight[p].pc = "verified" /\ inflight[p].op = "confirm_password_reset"
    /\ UNCHANGED <<now, users, rbacVars, nticks, rateVars, documents, cacheDown, permissionRows,
                   oidcStates,
                   identity, refreshTokens, resetTokens, userResetTokens, issued,
                   resetHistory, revoked>>
    /\ LET user_id == inflight[p].user_id
       IN IF ~UserExists(user_id) \/ ~users[user_id].is_active
          THEN /\ Finish(p, 400, "User not found or inactive")
               /\ UNCHANGED passwordHash
          ELSE /\ passwordHash' = [passwordHash EXCEPT
                                     ![user_id] = hash_password(inflight[p].arg)]
               /\ inflight' = [inflight EXCEPT ![p].pc = "committed"]
               /\ UNCHANGED <<nreq, response>>

\* invalidate_password_reset_token, invalidate_refresh_token and the answer
confirm_invalidate(p) ==
    /\ inflight[p].pc = "committed" /\ inflight[p].op = "confirm_password_reset"
    /\ UNCHANGED <<now, users, rbacVars, nticks, rateVars, documents, cacheDown, permissionRows,
                   oidcStates,
                   identity, passwordHash, issued, resetHistory>>
    /\ LET user_id == inflight[p].user_id
           invalidated == invalidate_password_reset_token(inflight[p].token, user_id)
       IN /\ resetTokens' = invalidated.reset
          /\ userResetTokens' = invalidated.user
          /\ refreshTokens' = invalidate_refresh_token(refreshTokens, user_id)
          /\ revoked' = revoked \cup RefreshTokensOf(user_id)
          /\ Finish(p, 200, "Password has been reset successfully")

InitConfirm ==
    /\ now = 0
    /\ \E active \in BOOLEAN :
          users = [u \in UserIds |->
                      CASE u = "u0" -> NoRow
                        [] u = "u1" -> UserRow(TRUE)
                        [] u = "u2" -> UserRow(active)]
    /\ passwordHash = [u \in UserIds |-> IF u = "u0" THEN NoHash ELSE hash_password("pw1")]
    /\ roles = [r \in RoleIds |-> NoRow]
    /\ rolePermissions = {}
    /\ userRoles = {}
    /\ auditLogs = <<>>
    /\ cache = [k \in CacheKeys |-> NoEntry]
    /\ nreq = 0
    /\ response = NoResponse
    /\ nticks = 0
    /\ refreshTokens = [u \in UserIds |-> NoEntry]
    /\ resetTokens = [t \in ResetTokenIds |-> NoEntry]
    /\ userResetTokens = [u \in UserIds |-> NoEntry]
    /\ issued = {}
    /\ resetHistory = [u \in UserIds |-> <<>>]
    /\ revoked = {}
    /\ NoRateState /\ NoDocuments /\ NoExtState

NextConfirm ==
    \/ \E email \in Emails : request_password_reset(email)
    \/ \E p \in Procs, t \in ResetTokenIds, new_password \in Passwords :
          confirm_verify(p, t, new_password)
    \/ \E p \in Procs : confirm_commit(p)
    \/ \E p \in Procs : confirm_invalidate(p)

SpecConfirm == InitConfirm /\ [][NextConfirm]_vars

\* the request of p has set the password of the user of its token
HasSetPassword(p) ==
    /\ inflight[p].op = "confirm_password_reset"
    /\ inflight[p].pc = "committed" \/ (inflight[p].pc = "done" /\ inflight[p].status = 200)

\* C11: a password-reset token is consumed at most once: across any sequence or
\* interleaving of POST /auth/password/reset/confirm requests presenting the
\* same token, at most one sets the user's password; every other one fails with
\* 400 and leaves the password hash unchanged.
C11_ResetTokenConsumedOnce ==
    \A p, q \in Procs :
        (p # q /\ inflight[p].token = inflight[q].token /\ HasSetPassword(p))
            => ~HasSetPassword(q)

\* the reset tokens verify_password_reset_token accepts for user u
AcceptedResetTokens(u) ==
    {t \in ResetTokenIds : Live(resetTokens[t]) /\ resetTokens[t].value.user_id = u}

\* C38: in every reachable cache state at most one password-reset token is
\* accepted for a given user, also when reset requests for the same user run
\* concurrently or a confirm runs concurrently with a reset request.
C38_OneResetTokenPerUser ==
    \A u \in UserIds : Cardinality(AcceptedResetTokens(u)) <= 1

-----------------------------------------------------------------------------
(* SpecOidc: GET /oidc/authorize and GET /oidc/callback (api/v1/oidc.py), the
   callbacks served concurrently. A callback gives way to the others between
   the read of the state entry and its deletion, and after the deletion. *)

\* State/nonce storage TTL (5 minutes)
OIDC_STATE_TTL == 300

DeletedEntry == [hit |-> FALSE, deleted |-> TRUE]

_get_state_key(state) == state

\* the name claims of the ID token; a claim the token lacks is the empty name
NamedBy(claims, preferred_username, name, given_name, family_name) ==
    claims @@ [preferred_username |-> preferred_username, name |-> name,
               given_name |-> given_name, family_name |-> family_name]

\* what the provider answers to the code: the exchange fails, or the ID token
\* names a subject and an email, either of which may be missing
UserInfos ==
    {NamedBy([ok |-> FALSE, sub |-> None, email |-> None], <<>>, <<>>, <<>>, <<>>)}
        \cup {NamedBy([ok |-> TRUE, sub |-> sub, email |-> email], <<>>, <<>>, <<>>, <<>>) :
                 sub \in OidcSubjects \cup {None}, email \in {"e0", "e1", None}}

FreeOidcStates == {st \in OidcStateIds : oidcStates[st] = NoEntry}

\* GET /oidc/authorize: a fresh state is stored with its nonce
oidc_authorize ==
    /\ FreeOidcStates # {}
    /\ LET state == CHOOSE st \in FreeOidcStates : \A o \in FreeOidcStates : st[2] <= o[2]
       IN /\ oidcStates' = [oidcStates EXCEPT ![_get_state_key(state)] =
                               [hit |-> TRUE, value |-> <<"nonce", state[2]>>,
                                expire_at |-> now + OIDC_STATE_TTL]]
          /\ Respond("oidc_authorize", 302, state, None, None, {})
    /\ UNCHANGED <<now, users, rbacVars, nticks, authVars, rateVars, documents, cacheDown,
                   permissionRows,
                   inflight, identity>>

\* _verify_oidc_state, "data = await cache.get_json(...)"
callback_read_state(p, state, user_info) ==
    /\ inflight[p].pc = "idle"
    /\ UNCHANGED <<now, users, rbacVars, nticks, authVars, rateVars, documents, cacheDown,
                   permissionRows,
                   oidcStates, identity>>
    /\ IF ~Live(oidcStates[_get_state_key(state)])
       THEN /\ inflight' = [inflight EXCEPT ![p] =
                               [pc |-> "done", op |-> "oidc_callback", token |-> state,
                                arg |-> user_info, user_id |-> None, status |-> 400]]
            /\ Respond("oidc_callback", 400, state, None, None,
                       {"Invalid or expired state parameter"})
       ELSE Proceed(p, "state_read", "oidc_callback", state, user_info, None)

\* _verify_oidc_state, "await cache.delete(...)": the nonce is returned
callback_delete_state(p) ==
    /\ inflight[p].pc = "state_read"
    /\ oidcStates' = [oidcStates EXCEPT ![_get_state_key(inflight[p].token)] = DeletedEntry]
    /\ inflight' = [inflight EXCEPT ![p].pc = "verified"]
    /\ UNCHANGED <<now, users, rbacVars, nreq, response, nticks, authVars, rateVars,
                   documents, cacheDown, permissionRows, identity>>

UserBySubject(oidc_subject, oidc_issuer) ==
    {u \in UserIds : /\ UserExists(u)
                     /\ identity[u].oidc_subject = oidc_subject
                     /\ identity[u].oidc_issuer = oidc_issuer}

\* linking sets oidc_subject, oidc_issuer and auth_provider; password_hash stays
link_password_hash(ph, user) == ph

\* str.lower and str.replace on a name
Lower(c) == IF c = "N" THEN "n" ELSE c
LowerName(name) == [i \in DOMAIN name |-> Lower(name[i])]
Replace(name, old, new) == [i \in DOMAIN name |-> IF name[i] = old THEN new ELSE name[i]]

\* email.split("@")[0]: the local part of the address
EmailPrefix(email) == <<email>>

_generate_username(user_info) ==
    IF user_info.preferred_username # <<>>
    THEN Replace(LowerName(user_info.preferred_username), " ", "_")
    ELSE IF user_info.name # <<>>
    THEN Replace(LowerName(user_info.name), " ", "_")
    ELSE IF user_info.given_name # <<>>
    THEN Replace(LowerName(user_info.given_name)
                     \o (IF user_info.family_name # <<>>
                         THEN <<"_">> \o LowerName(user_info.family_name)
                         ELSE <<>>),
                 " ", "_")
    ELSE Replace(LowerName(EmailPrefix(user_info.email)), ".", "_")

UserByUsername(username) ==
    {u \in UserIds : UserExists(u) /\ identity[u].username = username}

\* str(counter): the decimal digits of the counter
Digits == <<"0", "1", "2", "3", "4", "5", "6", "7", "8", "9">>
RECURSIVE Str(_)
Str(n) == IF n < 10 THEN <<Digits[n + 1]>> ELSE Str(n \div 10) \o <<Digits[(n % 10) + 1]>>

\* a name generation that does not look the name up
ensure_unique_unchecked(base_username, counter) == base_username

\* "Ensure username is unique": base, base1, base2, ... until no user has the name
RECURSIVE ensure_unique(_, _)
ensure_unique(base_username, counter) ==
    LET username == IF counter = 0 THEN base_username ELSE base_username \o Str(counter)
    IN IF UserByUsername(username) = {} THEN username
       ELSE ensure_unique(base_username, counter + 1)

\* _find_or_create_oidc_user: [ok, user] and the users, hashes and identities after it
_find_or_create_oidc_user(user_info) ==
    LET by_subject == UserBySubject(user_info.sub, OIDC_ISSUER_URL)
        by_email == UserByEmail(user_info.email)
        kept == [ok |-> TRUE, users |-> users, passwordHash |-> passwordHash,
                 identity |-> identity]
    IN IF by_subject # {}
       THEN [kept EXCEPT !.ok = TRUE] @@ [user |-> CHOOSE u \in by_subject : TRUE]
       ELSE IF by_email # {}
       THEN LET user == CHOOSE u \in by_email : TRUE
            IN IF identity[user].auth_provider = "local"
               THEN [ok |-> TRUE, user |-> user, users |-> users,
                     passwordHash |-> link_password_hash(passwordHash, user),
                     identity |-> [identity EXCEPT
                                      ![user].oidc_subject = user_info.sub,
                                      ![user].oidc_issuer = OIDC_ISSUER_URL,
                                      ![user].auth_provider = "oidc",
                                      ![user].is_verified = TRUE]]
               ELSE [kept EXCEPT !.ok = FALSE] @@ [user |-> user]
       ELSE LET user == CHOOSE u \in UserIds : Email(u) = user_info.email
                username == ensure_unique(_generate_username(user_info), 0)
            IN [ok |-> TRUE, user |-> user,
                users |-> [users EXCEPT ![user] = UserRow(TRUE)],
                passwordHash |-> [passwordHash EXCEPT ![user] = NoHash],
                identity |-> [identity EXCEPT ![user] =
                                 Account(OidcIdentity(user_info.sub), username, TRUE)]]

\* oidc_callback after the state verification: code exchange, user, tokens
callback_finish(p) ==
    /\ inflight[p].pc = "verified"
    /\ UNCHANGED <<now, rbacVars, nticks, rateVars, documents, cacheDown, permissionRows,
                   oidcStates,
                   resetTokens, userResetTokens, resetHistory, revoked>>
    /\ LET user_info == inflight[p].arg
           found == _find_or_create_oidc_user(user_info)
           tokens == create_tokens(found.user)
           Refuse(detail) ==
               /\ Finish(p, 400, detail)
               /\ UNCHANGED <<users, passwordHash, identity, refreshTokens, issued>>
       IN IF ~user_info.ok THEN Refuse("Failed to authenticate with OIDC provider")
          ELSE IF user_info.sub = None
          THEN Refuse("OIDC provider did not return subject identifier")
          ELSE IF user_info.email = None
          THEN Refuse("OIDC provider did not return email address")
          ELSE IF ~found.ok THEN Refuse("Email already associated with another account")
          ELSE /\ users' = [found.users EXCEPT ![found.user].last_login_at = now]
               /\ passwordHash' = found.passwordHash
               /\ identity' = found.identity
               /\ refreshTokens' = store_refresh_token(refreshTokens, found.user,
                                                       tokens.refresh_token)
               /\ issued' = issued \cup {tokens.access_token, tokens.refresh_token}
               /\ inflight' = [inflight EXCEPT ![p].pc = "done", ![p].status = 200,
                                               ![p].user_id = found.user]
               /\ Respond("oidc_callback", 200, inflight[p].token, found.user, None,
                          {tokens.access_token, tokens.refresh_token})

\* the second passes, or the clock jumps by the lifetime of a state entry
OidcTickSteps == {1, OIDC_STATE_TTL}

\* u1 registered with a password, u2 was created by the provider for subject s2
\* and may have been deactivated since
InitOidc ==
    /\ now = 0
    /\ \E active \in BOOLEAN :
          users = [u \in UserIds |->
                      CASE u = "u0" -> NoRow
                        [] u = "u1" -> UserRow(TRUE)
                        [] u = "u2" -> UserRow(active)]
    /\ passwordHash = [u \in UserIds |-> IF u = "u1" THEN hash_password("pw1") ELSE NoHash]
    /\ roles = [r \in RoleIds |-> NoRow]
    /\ rolePermissions = {}
    /\ userRoles = {}
    /\ auditLogs = <<>>
    /\ cache = [k \in CacheKeys |-> NoEntry]
    /\ nreq = 0
    /\ response = NoResponse
    /\ nticks = 0
    /\ refreshTokens = [u \in UserIds |-> NoEntry]
    /\ resetTokens = [t \in ResetTokenIds |-> NoEntry]
    /\ userResetTokens = [u \in UserIds |-> NoEntry]
    /\ issued = {}
    /\ resetHistory = [u \in UserIds |-> <<>>]
    /\ revoked = {}
    /\ NoRateState /\ NoDocuments /\ NoExtState

NextOidc ==
    \/ oidc_authorize
    \/ \E p \in Procs, state \in OidcStateIds, user_info \in UserInfos :
          callback_read_state(p, state, user_info)
    \/ \E p \in Procs : callback_delete_state(p)
    \/ \E p \in Procs : callback_finish(p)
    \/ \E d \in OidcTickSteps : nticks < MaxAuthTicks /\ Tick(d)

SpecOidc == InitOidc /\ [][NextOidc]_vars

\* _verify_oidc_state returned the nonce to the callback of p
PastStateVerification(p) ==
    /\ inflight[p].op = "oidc_callback"
    /\ \/ inflight[p].pc = "verified"
       \/ inflight[p].pc = "done" /\ inflight[p].status = 200

\* C12: a state value stored by GET /oidc/authorize authorizes at most one GET
\* /oidc/callback: of any callbacks presenting the same state, sequential or
\* concurrent, at most one proceeds past state verification and all others
\* fail with 400 "Invalid or expired state parameter".
C12_StateAuthorizesOneCallback ==
    \A p, q \in Procs :
        (p # q /\ inflight[p].token = inflight[q].token /\ PastStateVerification(p))
            => ~PastStateVerification(q)

\* C20: in every reachable store state, each User with auth_provider = local
\* has a non-empty password_hash, and each User with any other auth_provider
\* has password_hash = null and non-null oidc_issuer and oidc_subject.
C20_ProviderMatchesCredentials ==
    \A u \in UserIds :
        UserExists(u)
            => IF identity[u].auth_provider = "local"
               THEN passwordHash[u] # NoHash
               ELSE /\ passwordHash[u] = NoHash
                    /\ identity[u].oidc_issuer # None
                    /\ identity[u].oidc_subject # None

\* C40: no endpoint issues a token pair or stores a refresh binding for a user
\* whose is_active is false: login, refresh and the OIDC callback all refuse
\* an inactive account.
C40_InactiveAccountsGetNoTokens ==
    [][(/\ response'.seq # response.seq
        /\ response'.op \in {"login", "refresh_token", "oidc_callback"}
        /\ response'.status = 200)
          => /\ users'[response'.user].is_active
             /\ \A u \in UserIds :
                   refreshTokens'[u] # refreshTokens[u] => users'[u].is_active]_vars

-----------------------------------------------------------------------------
(* SpecLink: the account resolution of GET /oidc/callback, the callbacks served
   one after the other, for ID tokens with every kind of name claim. *)

\* the requests served in one run
MaxLinkReq == 4

LinkUserInfos ==
    {NamedBy([ok |-> TRUE, sub |-> sub, email |-> email],
             preferred_username, name, given_name, family_name) :
        sub \in OidcSubjects, email \in Emails,
        preferred_username \in {<<>>, <<"N">>}, name \in {<<>>, <<"n", "1">>},
        given_name \in {<<>>, <<"n">>}, family_name \in {<<>>, <<"1">>}}

\* the response is sent and the worker takes the next request
next_request(p) ==
    /\ inflight[p].pc = "done"
    /\ inflight' = [inflight EXCEPT ![p] = IdleProc]
    /\ UNCHANGED <<now, users, rbacVars, nreq, response, nticks, authVars, rateVars,
                   documents, cacheDown, permissionRows, oidcStates, identity>>

\* u1 may have registered with a password under the name n, u2 may have been
\* created by the provider for subject s2 under the name n1
InitLink ==
    /\ now = 0
    /\ \E present \in SUBSET {"u1", "u2"} :
          users = [u \in UserIds |-> IF u \in present THEN UserRow(TRUE) ELSE NoRow]
    /\ passwordHash = [u \in UserIds |->
                          IF u = "u1" /\ users[u].exists THEN hash_password("pw1")
                          ELSE NoHash]
    /\ roles = [r \in RoleIds |-> NoRow]
    /\ rolePermissions = {}
    /\ userRoles = {}
    /\ auditLogs = <<>>
    /\ cache = [k \in CacheKeys |-> NoEntry]
    /\ nreq = 0
    /\ response = NoResponse
    /\ nticks = 0
    /\ refreshTokens = [u \in UserIds |-> NoEntry]
    /\ resetTokens = [t \in ResetTokenIds |-> NoEntry]
    /\ userResetTokens = [u \in UserIds |-> NoEntry]
    /\ issued = {}
    /\ resetHistory = [u \in UserIds |-> <<>>]
    /\ revoked = {}
    /\ NoRateState /\ NoDocuments /\ NoExtState

NextLink ==
    \/ oidc_authorize
    \/ \E state \in OidcStateIds, user_info \in LinkUserInfos :
          nreq < MaxLinkReq /\ callback_read_state("a", state, user_info)
    \/ callback_delete_state("a")
    \/ callback_finish("a")
    \/ next_request("a")

SpecLink == InitLink /\ [][NextLink]_vars

\* the callback of p resolves the account of an ID token with subject and email
Resolves(p) ==
    /\ inflight[p].pc = "verified"
    /\ inflight'[p].pc = "done"
    /\ inflight[p].arg.ok
    /\ inflight[p].arg.sub # None
    /\ inflight[p].arg.email # None

Linked(account, s) ==
    [account EXCEPT !.oidc_subject = s, !.oidc_issuer = OIDC_ISSUER_URL,
                    !.auth_provider = "oidc", !.is_verified = TRUE]

\* C21: the account of an OIDC callback with subject s, issuer i and email e
\* is resolved in this order: the user with (i, s) is returned unchanged; else
\* the local user with email e is linked; else a user with email e linked to
\* another identity makes the callback fail with 400 and no user is changed;
\* else exactly one user is created, with a username no other user has.
C21_ResolutionOrder ==
    [][\A p \in Procs :
         Resolves(p) =>
           LET s == inflight[p].arg.sub
               e == inflight[p].arg.email
               bySubject == {u \in UserIds : /\ UserExists(u)
                                              /\ identity[u].oidc_issuer = OIDC_ISSUER_URL
                                              /\ identity[u].oidc_subject = s}
               byEmail == {u \in UserIds : UserExists(u) /\ Email(u) = e}
               created == {u \in UserIds : ~UserExists(u) /\ users'[u].exists}
           IN IF bySubject # {}
              THEN /\ identity' = identity
                   /\ passwordHash' = passwordHash
                   /\ created = {}
                   /\ response'.status = 200
                   /\ response'.user \in bySubject
              ELSE IF \E u \in byEmail : identity[u].auth_provider = "local"
              THEN \E u \in byEmail :
                      /\ identity' = [identity EXCEPT ![u] = Linked(@, s)]
                      /\ created = {}
                      /\ response'.status = 200
                      /\ response'.user = u
              ELSE IF byEmail # {}
              THEN /\ response'.status = 400
                   /\ response'.body = {"Email already associated with another account"}
                   /\ users' = users
                   /\ identity' = identity
                   /\ passwordHash' = passwordHash
              ELSE /\ Cardinality(created) = 1
                   /\ \A u \in created :
                         /\ Email(u) = e
                         /\ response'.status = 200
                         /\ response'.user = u
                         /\ identity'[u].oidc_subject = s
                         /\ identity'[u].oidc_issuer = OIDC_ISSUER_URL
                         /\ identity'[u].auth_provider = "oidc"
                         /\ \A v \in UserIds \ {u} :
                               /\ identity'[v] = identity[v]
                               /\ users'[v].exists
                                     => identity'[v].username # identity'[u].username]_vars

\* a user was created whose generated name n was held by u1 and n1 by u2
C21_Witness ==
    /\ UserExists("u0")
    /\ identity["u0"].username = <<"n", "2">>
    /\ inflight["a"].pc = "done"
    /\ response.status = 200

-----------------------------------------------------------------------------
(* SpecOnboard: POST /auth/register, POST /auth/login and POST /documents: the
   way of a new account to its first document. *)

\* the requests served in one run
MaxOnboardReq == 3

register_rate_limiter ==
    [action |-> "register", max_requests |-> 3, window_seconds |-> 60, block_seconds |-> 600]

RegisterAnswer(status, user, detail) ==
    /\ Respond("register", status, NoToken, user, None, {detail})
    /\ UNCHANGED <<users, passwordHash, identity>>

register(email, username, password) ==
    /\ nreq < MaxOnboardReq
    /\ UNCHANGED <<now, rbacVars, nticks, documents, window, sinceReset, cacheDown,
                   permissionRows, inflight,
                   oidcStates, refreshTokens, resetTokens, userResetTokens, issued,
                   resetHistory, revoked>>
    /\ LET limit == RateLimiter(register_rate_limiter)
           user == CHOOSE u \in UserIds : Email(u) = email
       IN /\ rateLimit' = limit.keys
          /\ IF ~limit.is_allowed
             THEN /\ Respond("register", 429, NoToken, None, None, {limit.remaining})
                  /\ UNCHANGED <<users, passwordHash, identity>>
             ELSE IF UserByEmail(email) # {}
             THEN RegisterAnswer(400, None, "Email already registered")
             ELSE IF UserByUsername(username) # {}
             THEN RegisterAnswer(400, None, "Username already taken")
             ELSE /\ users' = [users EXCEPT ![user] = UserRow(TRUE)]
                  /\ passwordHash' = [passwordHash EXCEPT ![user] = hash_password(password)]
                  /\ identity' = [identity EXCEPT ![user] =
                                     Account(LocalIdentity, username, FALSE)]
                  /\ Respond("register", 201, NoToken, user, None, {})

\* the seeded roles Admin, User and Viewer; u1, an account with the role User
InitOnboard ==
    /\ now = RbacNow
    /\ users = [u \in UserIds |-> IF u = "u1" THEN UserRow(TRUE) ELSE NoRow]
    /\ passwordHash = [u \in UserIds |-> IF u = "u1" THEN hash_password("pw1") ELSE NoHash]
    /\ roles = [r \in RoleIds |->
                   [exists |-> TRUE, deleted |-> FALSE,
                    name |-> CASE r = "r1" -> "Admin" [] r = "r2" -> "User"
                               [] r = "r3" -> "Viewer",
                    description |-> "d1", is_system |-> TRUE]]
    /\ rolePermissions = {<<"r1", p>> : p \in {"p6", "p7", "p8", "p9"}}
                             \cup {<<"r2", p>> : p \in {"p5", "p9", "p10", "p11"}}
                             \cup {<<"r3", "p10">>}
    /\ userRoles = {<<"u1", "r2">>}
    /\ auditLogs = <<>>
    /\ cache = [k \in CacheKeys |-> NoEntry]
    /\ nreq = 0
    /\ response = NoResponse
    /\ nticks = 0
    /\ refreshTokens = [u \in UserIds |-> NoEntry]
    /\ resetTokens = [t \in ResetTokenIds |-> NoEntry]
    /\ userResetTokens = [u \in UserIds |-> NoEntry]
    /\ issued = {}
    /\ resetHistory = [u \in UserIds |-> <<>>]
    /\ revoked = {}
    /\ NoRateState /\ NoDocuments /\ NoExtState

NextOnboard ==
    \/ \E email \in Emails, username \in {<<"n">>, <<"m">>}, password \in Passwords :
          register(email, username, password)
    \/ \E email \in Emails, password \in Passwords :
          nreq < MaxOnboardReq /\ login(email, password)
    \/ \E token \in issued \cup {NoToken}, title \in Titles :
          nreq < MaxOnboardReq /\ create_new_document(token, title)

SpecOnboard == InitOnboard /\ [][NextOnboard]_vars

\* C26: a user who has registered through POST /auth/register and logged in
\* can create a document with POST /documents: the request returns 201 and the
\* stored document's owner_id is that user.
C26_RegisteredUserCreatesDocument ==
    [][\A token \in issued, title \in Titles :
         (/\ create_new_document(token, title)
          /\ get_current_active_user(token).status = 200
          /\ identity[get_current_active_user(token).user].auth_provider = "local")
            => /\ response'.status = 201
               /\ \E d \in response'.body :
                     /\ ~DocExists(d)
                     /\ documents'[d].exists
                     /\ documents'[d].owner_id = get_current_active_user(token).user]_vars

-----------------------------------------------------------------------------
(* SpecBoot: init_database at application startup (core/init_db.py,
   core/seed_rbac.py) on a database that earlier versions or earlier runs may
   have filled. In this specification the rows of table permissions are kept in
   insertion order, the id of a row is its position, and the ids of the roles
   are 1..MaxBootRoles. *)

\* the role rows the database has room for
MaxBootRoles == 6
\* the startups in one run
MaxBoots == 2

\* (resource, action, scope) of the default permissions
DEFAULT_PERMISSIONS ==
    << <<"users", "create", "all">>, <<"users", "read", "own">>, <<"users", "read", "all">>,
       <<"users", "update", "own">>, <<"users", "update", "all">>,
       <<"users", "delete", "all">>,
       <<"roles", "create", "all">>, <<"roles", "read", "all">>,
       <<"roles", "update", "all">>, <<"roles", "delete", "all">>,
       <<"permissions", "read", "all">>,
       <<"documents", "create", "own">>, <<"documents", "read", "own">>,
       <<"documents", "read", "team">>, <<"documents", "read", "all">>,
       <<"documents", "update", "own">>, <<"documents", "update", "team">>,
       <<"documents", "update", "all">>, <<"documents", "delete", "own">>,
       <<"documents", "delete", "all">>,
       <<"labels", "create", "own">>, <<"labels", "read", "own">>,
       <<"labels", "read", "all">>, <<"labels", "update", "own">>,
       <<"labels", "update", "all">>, <<"labels", "delete", "own">>,
       <<"labels", "delete", "all">>,
       <<"watch_folders", "create", "own">>, <<"watch_folders", "read", "own">>,
       <<"watch_folders", "read", "all">>, <<"watch_folders", "update", "own">>,
       <<"watch_folders", "update", "all">>, <<"watch_folders", "delete", "own">>,
       <<"watch_folders", "delete", "all">>,
       <<"system", "*", "all">> >>

\* (name, is_system, permission_patterns) of the default roles
DEFAULT_ROLES ==
    << [name |-> "Super Admin", is_system |-> TRUE,
        permission_patterns |-> << <<"*", "*", "all">> >>],
       [name |-> "Admin", is_system |-> TRUE,
        permission_patterns |->
            << <<"users", "*", "all">>, <<"roles", "*", "all">>,
               <<"permissions", "read", "all">>, <<"documents", "*", "all">>,
               <<"labels", "*", "all">>, <<"watch_folders", "*", "all">> >>],
       [name |-> "Manager", is_system |-> TRUE,
        permission_patterns |->
            << <<"users", "read", "all">>, <<"documents", "create", "own">>,
               <<"documents", "read", "team">>, <<"documents", "update", "team">>,
               <<"documents", "delete", "own">>, <<"labels", "create", "own">>,
               <<"labels", "read", "all">>, <<"labels", "update", "own">>,
               <<"labels", "delete", "own">>, <<"watch_folders", "create", "own">>,
               <<"watch_folders", "read", "own">>, <<"watch_folders", "update", "own">>,
               <<"watch_folders", "delete", "own">> >>],
       [name |-> "User", is_system |-> TRUE,
        permission_patterns |->
            << <<"users", "read", "own">>, <<"users", "update", "own">>,
               <<"documents", "create", "own">>, <<"documents", "read", "own">>,
               <<"documents", "update", "own">>, <<"documents", "delete", "own">>,
               <<"labels", "create", "own">>, <<"labels", "read", "own">>,
               <<"labels", "update", "own">>, <<"labels", "delete", "own">> >>],
       [name |-> "Viewer", is_system |-> TRUE,
        permission_patterns |->
            << <<"users", "read", "own">>, <<"documents", "read", "own">>,
               <<"labels", "read", "own">> >>] >>

BootRoleIds == 1..MaxBootRoles

\* the ids of the rows with this (resource, action, scope)
permission_ids(table, key) == {id \in DOMAIN table : table[id] = key}

\* a lookup that finds no row
permission_exists_never(table, key) == FALSE

\* "select(Permission).where(resource, action, scope)" finds a row
permission_exists(table, key) == permission_ids(table, key) # {}

\* seed_permissions: the table after the loop over DEFAULT_PERMISSIONS[i..]
RECURSIVE seed_permissions(_, _)
seed_permissions(table, i) ==
    IF i > Len(DEFAULT_PERMISSIONS) THEN table
    ELSE IF permission_exists(table, DEFAULT_PERMISSIONS[i])
    THEN seed_permissions(table, i + 1)
    ELSE seed_permissions(Append(table, DEFAULT_PERMISSIONS[i]), i + 1)

\* permissions_map: the pairs <<(resource, action, scope), id>>
permissions_map(table) ==
    {<<DEFAULT_PERMISSIONS[i],
       CHOOSE id \in permission_ids(table, DEFAULT_PERMISSIONS[i]) : TRUE>> :
        i \in DOMAIN DEFAULT_PERMISSIONS}

\* a wildcard action that is expanded within the scope of the pattern only
pattern_permissions_in_scope(map, pattern) ==
    IF pattern[1] = "*" /\ pattern[2] = "*" THEN {e[2] : e \in map}
    ELSE IF pattern[2] = "*"
    THEN {e[2] : e \in {x \in map : x[1][1] = pattern[1] /\ x[1][3] = pattern[3]}}
    ELSE {e[2] : e \in {x \in map : x[1] = pattern}}

\* the ids of the permissions a pattern of a default role stands for
pattern_permissions(map, pattern) ==
    IF pattern[1] = "*" /\ pattern[2] = "*" THEN {e[2] : e \in map}
    ELSE IF pattern[2] = "*" THEN {e[2] : e \in {x \in map : x[1][1] = pattern[1]}}
    ELSE {e[2] : e \in {x \in map : x[1] = pattern}}

boot_role_by_name(rs, name) == {r \in DOMAIN rs : rs[r].exists /\ rs[r].name = name}

\* seed_roles: [roles, rp] after the loop over DEFAULT_ROLES[i..]
RECURSIVE seed_roles(_, _, _, _)
seed_roles(rs, rp, map, i) ==
    IF i > Len(DEFAULT_ROLES) THEN [roles |-> rs, rp |-> rp]
    ELSE LET default == DEFAULT_ROLES[i]
             found == boot_role_by_name(rs, default.name)
             free == {r \in DOMAIN rs : ~rs[r].exists}
             role == IF found = {} THEN CHOOSE r \in free : \A o \in free : r <= o
                     ELSE CHOOSE r \in found : TRUE
             granted == UNION {pattern_permissions(map, default.permission_patterns[k]) :
                                  k \in DOMAIN default.permission_patterns}
         IN seed_roles(IF found = {}
                       THEN [rs EXCEPT ![role] =
                                [exists |-> TRUE, deleted |-> FALSE, name |-> default.name,
                                 description |-> "d1", is_system |-> default.is_system]]
                       ELSE rs,
                       rp \cup {<<role, perm>> : perm \in granted}, map, i + 1)

\* secrets.token_urlsafe(16)
GeneratedPassword == "generated"

\* init_database: seed_rbac, then create_superadmin with the configured
\* SUPERADMIN_EMAIL and SUPERADMIN_PASSWORD (None: not configured)
init_database(email, configured_password) ==
    /\ nreq < MaxBoots
    /\ UNCHANGED <<now, auditLogs, cache, nticks, refreshTokens, resetTokens,
                   userResetTokens, issued, resetHistory, revoked, rateVars, documents,
                   cacheDown, inflight, oidcStates>>
    /\ LET table == seed_permissions(permissionRows, 1)
           seeded == seed_roles(roles, rolePermissions, permissions_map(table), 1)
           existing_user == UserByEmail(email)
           superadmin_role == boot_role_by_name(seeded.roles, "Super Admin")
           role == CHOOSE r \in superadmin_role : TRUE
           password == IF configured_password = None THEN GeneratedPassword
                       ELSE configured_password
           user == CHOOSE u \in UserIds : Email(u) = email
       IN /\ permissionRows' = table
          /\ roles' = seeded.roles
          /\ rolePermissions' = seeded.rp
          /\ IF email = None
             THEN /\ Respond("init_database", 0, NoToken, None, None, {})
                  /\ UNCHANGED <<users, passwordHash, identity, userRoles>>
             ELSE IF existing_user # {}
             THEN /\ userRoles' =
                        IF superadmin_role # {} /\ <<user, role>> \notin userRoles
                        THEN flush_user_roles(userRoles, {<<user, role>>}, {})
                        ELSE userRoles
                  /\ Respond("init_database", 0, NoToken, user, None, {})
                  /\ UNCHANGED <<users, passwordHash, identity>>
             ELSE /\ users' = [users EXCEPT ![user] = UserRow(TRUE)]
                  /\ passwordHash' = [passwordHash EXCEPT ![user] = hash_password(password)]
                  /\ identity' = [identity EXCEPT ![user] =
                                     Account(LocalIdentity, <<"admin">>, TRUE)]
                  /\ userRoles' =
                        IF superadmin_role # {}
                        THEN flush_user_roles(userRoles, {<<user, role>>}, {})
                        ELSE userRoles
                  /\ Respond("init_database", 0, NoToken, user, None, {})

\* the tables an earlier version of the catalogue left: none, its first rows, or
\* all rows after a permission that is not in the catalogue
PriorPermissionTables ==
    {<<>>, SubSeq(DEFAULT_PERMISSIONS, 1, 12),
     << <<"reports", "read", "all">> >> \o DEFAULT_PERMISSIONS}

\* the default roles an earlier startup created
PriorRoleNames ==
    {{}, {"Super Admin"}, {"Viewer", "Admin", "Super Admin"},
     {"Super Admin", "Admin", "Manager", "User", "Viewer"}}

BootEmails == {None, "e1"}

\* the roles that exist hold nothing or the first rows of the table; there may
\* be a role that is not a default role; u1 may exist, in any state, and u2
InitBoot ==
    /\ now = 0
    /\ permissionRows \in PriorPermissionTables
    /\ \E names \in PriorRoleNames, custom \in BOOLEAN :
          LET listed == SetToSeq(names) \o (IF custom THEN <<"Editor">> ELSE <<>>)
          IN roles = [r \in BootRoleIds |->
                         IF r <= Len(listed)
                         THEN [exists |-> TRUE, deleted |-> FALSE, name |-> listed[r],
                               description |-> "d1", is_system |-> listed[r] # "Editor"]
                         ELSE NoRow]
    /\ \E held \in BOOLEAN :
          rolePermissions =
              IF held THEN {<<r, perm>> : r \in {x \in BootRoleIds : roles[x].exists},
                                          perm \in DOMAIN permissionRows \cap 1..3}
              ELSE {}
    /\ \E u1 \in {"absent", "active", "inactive"} :
          users = [u \in UserIds |->
                      CASE u = "u0" -> NoRow
                        [] u = "u1" -> IF u1 = "absent" THEN NoRow ELSE UserRow(u1 = "active")
                        [] u = "u2" -> UserRow(TRUE)]
    /\ passwordHash = [u \in UserIds |-> IF users[u].exists THEN hash_password("pw1") ELSE NoHash]
    /\ \E verified \in BOOLEAN :
          identity = [u \in UserIds |->
                         IF users[u].exists
                         THEN Account(LocalIdentity, Username(u), verified)
                         ELSE Account(NoIdentity, <<>>, FALSE)]
    /\ \E holds \in BOOLEAN :
          userRoles = IF holds /\ users["u1"].exists
                      THEN {<<"u1", r>> : r \in boot_role_by_name(roles, "Super Admin")}
                      ELSE {}
    /\ auditLogs = <<>>
    \* the permission list of u1 may have been cached just before the restart
    /\ \E cached \in BOOLEAN :
          cache = [k \in CacheKeys |->
                      IF cached /\ users["u1"].exists /\ k = _user_permissions_cache_key("u1")
                      THEN [hit |-> TRUE, expire_at |-> PERMISSIONS_CACHE_TTL,
                            value |-> SetToSeq({[id |-> rp[2],
                                                 resource |-> permissionRows[rp[2]][1],
                                                 action |-> permissionRows[rp[2]][2],
                                                 scope |-> permissionRows[rp[2]][3]] :
                                                   rp \in {x \in rolePermissions :
                                                              <<"u1", x[1]>> \in userRoles}})]
                      ELSE NoEntry]
    /\ nreq = 0
    /\ response = NoResponse
    /\ nticks = 0
    /\ refreshTokens = [u \in UserIds |-> NoEntry]
    /\ resetTokens = [t \in ResetTokenIds |-> NoEntry]
    /\ userResetTokens = [u \in UserIds |-> NoEntry]
    /\ issued = {}
    /\ resetHistory = [u \in UserIds |-> <<>>]
    /\ revoked = {}
    /\ NoRateState /\ NoDocuments
    /\ cacheDown = FALSE
    /\ inflight = [p \in Procs |-> IdleProc]
    /\ oidcStates = [st \in OidcStateIds |-> NoEntry]

NextBoot ==
    \E email \in BootEmails, configured_password \in {None, "pw2"} :
        init_database(email, configured_password)

SpecBoot == InitBoot /\ [][NextBoot]_vars

\* the table holds no two rows with the same (resource, action, scope) and no
\* two roles have the same name
NoDuplicateRows ==
    /\ \A i, j \in DOMAIN permissionRows : permissionRows[i] = permissionRows[j] => i = j
    /\ \A r, q \in DOMAIN roles :
          (roles[r].exists /\ roles[q].exists /\ roles[r].name = roles[q].name) => r = q

\* C27: bootstrap seeding is idempotent: a second run of seed_rbac on the state
\* produced by a first run creates no Permission, no Role and no
\* RolePermission row, and the store never holds two Permission rows with the
\* same (resource, action, scope) or two Roles with the same name.
C27_SeedingIsIdempotent ==
    [][(response'.seq # response.seq /\ response'.op = "init_database")
         => /\ NoDuplicateRows'
            /\ response.op = "init_database"
                 => /\ permissionRows' = permissionRows
                    /\ roles' = roles
                    /\ rolePermissions' = rolePermissions]_vars

\* a second startup ran on a database whose catalogue the first one completed
C27_Witness ==
    /\ response.op = "init_database"
    /\ response.seq = 2
    /\ Len(permissionRows) = Len(DEFAULT_PERMISSIONS)
    /\ \E r \in DOMAIN roles : roles[r].exists /\ roles[r].name = "Manager"

\* the ids of the catalogue permissions a pattern covers, read off the table
Covered(pattern) ==
    {id \in DOMAIN permissionRows :
        /\ \E i \in DOMAIN DEFAULT_PERMISSIONS : DEFAULT_PERMISSIONS[i] = permissionRows[id]
        /\ pattern[1] \in {"*", permissionRows[id][1]}
        /\ IF pattern[2] = "*" THEN TRUE
           ELSE permissionRows[id][2] = pattern[2] /\ permissionRows[id][3] = pattern[3]}

\* C28: after bootstrap, the Super Admin role holds every Permission of the
\* seeded catalogue, every seeded role with a pattern (resource = R, action =
\* *) holds every catalogue permission whose resource is R, and a role seeded
\* with a concrete pattern holds exactly that catalogue permission for it.
C28_PatternsAreExpanded ==
    response.op = "init_database"
        => \A i \in DOMAIN DEFAULT_ROLES :
              \E r \in DOMAIN roles :
                 /\ roles[r].exists
                 /\ roles[r].name = DEFAULT_ROLES[i].name
                 /\ \A k \in DOMAIN DEFAULT_ROLES[i].permission_patterns :
                       LET pattern == DEFAULT_ROLES[i].permission_patterns[k]
                       IN /\ Covered(pattern) # {}
                          /\ pattern[2] # "*" => Cardinality(Covered(pattern)) = 1
                          /\ \A id \in Covered(pattern) : <<r, id>> \in rolePermissions

\* the startup completed a catalogue of which only the first rows were there,
\* and Admin holds users:read:own through its pattern (users, *, all)
C28_Witness ==
    /\ response.op = "init_database"
    /\ response.seq = 1
    /\ \E r \in DOMAIN roles, id \in DOMAIN permissionRows :
          /\ roles[r].exists /\ roles[r].name = "Admin"
          /\ permissionRows[id] = <<"users", "read", "own">>
          /\ <<r, id>> \in rolePermissions
    /\ Len(permissionRows) = Len(DEFAULT_PERMISSIONS)

\* C29: after bootstrap with a super-admin email configured, whatever the
\* store held before, a User with that email exists, is active, is verified
\* and holds the Super Admin role.
C29_SuperAdminIsEnsured ==
    (response.op = "init_database" /\ response.user # None)
        => /\ UserExists(response.user)
           /\ users[response.user].is_active
           /\ identity[response.user].is_verified
           /\ \E r \in boot_role_by_name(roles, "Super Admin") :
                 <<response.user, r>> \in userRoles

\* C33: when bootstrap changes permission data directly, by adding a
\* RolePermission row to an existing role during seeding or by granting the
\* Super Admin role to an already existing user, every cached RBAC entry under
\* the prefix cache:rbac: is deleted, so no permission or role list cached
\* before startup is served after it.
C33_BootstrapClearsTheCache ==
    [][(/\ response'.seq # response.seq
        /\ response'.op = "init_database"
        /\ \/ \E rp \in rolePermissions' \ rolePermissions : roles[rp[1]].exists
           \/ userRoles' # userRoles)
          => \A k \in CacheKeys : ~cache'[k].hit]_vars

-----------------------------------------------------------------------------
(* SpecCommit: DELETE /roles/{role_id} and POST /users/{user_id}/roles served
   step by step next to other requests. The rows a request has flushed are in
   its own transaction until "await db.commit()"; the tables hold what is
   committed, which is what every other request reads. *)

\* HTTP requests answered in one behaviour of SpecCommit
MaxCommitReq == 3

\* the response of a request that ends at its first step
Reply(p, op, status, token, user_id, role_id) ==
    /\ inflight' = [inflight EXCEPT ![p] =
                       [pc |-> "done", op |-> op, token |-> token, arg |-> role_id,
                        user_id |-> user_id, status |-> status]]
    /\ Respond(op, status, token, user_id, role_id, {})

\* delete_existing_role up to "if role.is_system: raise"
delete_role_check(p, token, role_id) ==
    /\ inflight[p].pc = "idle"
    /\ UNCHANGED <<now, users, rbacVars, nticks, authVars, rateVars, documents, cacheDown,
                   permissionRows, oidcStates, identity>>
    /\ LET auth == permission_checker(token, "roles", "delete", "all")
       IN /\ cache' = CacheAfterGate(token)
          /\ IF auth.status # 200
             THEN Reply(p, "delete_existing_role", auth.status, token, None, None)
             ELSE IF ~RoleExists(role_id)
             THEN Reply(p, "delete_existing_role", 404, token, None, role_id)
             ELSE IF is_system(role_id)
             THEN Reply(p, "delete_existing_role", 400, token, None, role_id)
             ELSE Proceed(p, "checked", "delete_existing_role", token, role_id, None)

\* "await rbac.invalidate_role_cache(role_id)"
delete_role_invalidate(p) ==
    /\ inflight[p].pc = "checked"
    /\ inflight[p].op = "delete_existing_role"
    /\ cache' = invalidate_role_cache(cache, inflight[p].arg)
    /\ inflight' = [inflight EXCEPT ![p].pc = "invalidated"]
    /\ UNCHANGED <<now, users, rbacVars, nreq, response, nticks, authVars, rateVars,
                   documents, cacheDown, permissionRows, oidcStates, identity>>

\* "await delete_role(db, role)" and "await db.commit()"
delete_role_commit(p) ==
    /\ inflight[p].pc = "invalidated"
    /\ inflight[p].op = "delete_existing_role"
    /\ roles' = [roles EXCEPT ![inflight[p].arg] = DeletedRow]
    /\ rolePermissions' = {rp \in rolePermissions : rp[1] # inflight[p].arg}
    /\ userRoles' = {ur \in userRoles : ur[2] # inflight[p].arg}
    /\ inflight' = [inflight EXCEPT ![p].pc = "done", ![p].status = 200]
    /\ Respond("delete_existing_role", 200, inflight[p].token, None, inflight[p].arg, {})
    /\ UNCHANGED <<now, users, auditLogs, cache, nticks, authVars, rateVars, documents,
                   cacheDown, permissionRows, oidcStates, identity>>

\* assign_user_role up to "if role in user.roles: raise"
assign_role_check(p, token, user_id, role_id) ==
    /\ inflight[p].pc = "idle"
    /\ UNCHANGED <<now, users, rbacVars, nticks, authVars, rateVars, documents, cacheDown,
                   permissionRows, oidcStates, identity>>
    /\ LET auth == permission_checker(token, "users", "update", "all")
       IN /\ cache' = CacheAfterGate(token)
          /\ IF auth.status # 200
             THEN Reply(p, "assign_user_role", auth.status, token, None, None)
             ELSE IF ~UserExists(user_id) \/ ~RoleExists(role_id)
             THEN Reply(p, "assign_user_role", 404, token, user_id, role_id)
             ELSE IF <<user_id, role_id>> \in userRoles
             THEN Reply(p, "assign_user_role", 400, token, user_id, role_id)
             ELSE Proceed(p, "checked", "assign_user_role", token, role_id, user_id)

\* "await assign_role_to_user(db, user, role, ...)": append, flush, invalidate
assign_role_flush(p) ==
    /\ inflight[p].pc = "checked"
    /\ inflight[p].op = "assign_user_role"
    /\ cache' = assign_role_to_user(cache, inflight[p].user_id, inflight[p].arg)
    /\ inflight' = [inflight EXCEPT ![p].pc = "invalidated"]
    /\ UNCHANGED <<now, users, rbacVars, nreq, response, nticks, authVars, rateVars,
                   documents, cacheDown, permissionRows, oidcStates, identity>>

\* "await AuditService.log_role_assigned(...)" and "await db.commit()"
assign_role_commit(p) ==
    /\ inflight[p].pc = "invalidated"
    /\ inflight[p].op = "assign_user_role"
    /\ userRoles' = flush_user_roles(userRoles, {<<inflight[p].user_id, inflight[p].arg>>}, {})
    /\ auditLogs' = Append(auditLogs,
                           AuditRow("role_assigned", decode_token(inflight[p].token).sub,
                                    inflight[p].user_id, inflight[p].arg))
    /\ inflight' = [inflight EXCEPT ![p].pc = "done", ![p].status = 200]
    /\ Respond("assign_user_role", 200, inflight[p].token, inflight[p].user_id,
               inflight[p].arg, {})
    /\ UNCHANGED <<now, users, roles, rolePermissions, cache, nticks, authVars, rateVars,
                   documents, cacheDown, permissionRows, oidcStates, identity>>

\* RBACService.get_user_permissions for the principal of a request, up to the
\* end of the query that loads the roles and their permissions
permissions_load(p, token) ==
    /\ inflight[p].pc = "idle"
    /\ UNCHANGED <<now, users, rbacVars, nticks, authVars, rateVars, documents, cacheDown,
                   permissionRows, oidcStates, identity>>
    /\ LET current_user == get_current_active_user(token)
       IN IF current_user.status # 200
          THEN Reply(p, "get_user_permissions", current_user.status, token, None, None)
          ELSE IF CacheHit(cache, _user_permissions_cache_key(current_user.user))
          THEN Reply(p, "get_user_permissions", 200, token, current_user.user, None)
          ELSE Proceed(p, "loaded", "get_user_permissions", token,
                       LoadPermissions(current_user.user), current_user.user)

\* "await self.cache.set_json(cache_key_str, permissions, expire=...)"
permissions_fill(p) ==
    /\ inflight[p].pc = "loaded"
    /\ inflight[p].op = "get_user_permissions"
    /\ cache' = set_json(cache, _user_permissions_cache_key(inflight[p].user_id),
                         inflight[p].arg, PERMISSIONS_CACHE_TTL)
    /\ inflight' = [inflight EXCEPT ![p].pc = "done", ![p].status = 200]
    /\ Respond("get_user_permissions", 200, inflight[p].token, inflight[p].user_id, None, {})
    /\ UNCHANGED <<now, users, roles, rolePermissions, userRoles, auditLogs, nticks,
                   authVars, rateVars, documents, cacheDown, permissionRows, oidcStates,
                   identity>>

\* worker a serves the mutations, any request may read next to them
NextCommit ==
    \/ \E token \in GateTokens : nreq < MaxCommitReq /\ permissions_load("b", token)
    \/ permissions_fill("b")
    \/ next_request("b")
    \/ \E token \in GateTokens, role_id \in RoleIds, listed \in PermissionIdLists :
          assign_permissions(token, role_id, listed)
    \/ \E token \in GateTokens, role_id \in RoleIds :
          nreq < MaxCommitReq /\ delete_role_check("a", token, role_id)
    \/ delete_role_invalidate("a")
    \/ delete_role_commit("a")
    \/ \E token \in GateTokens, user_id \in UserIds, role_id \in RoleIds :
          nreq < MaxCommitReq /\ assign_role_check("a", token, user_id, role_id)
    \/ assign_role_flush("a")
    \/ assign_role_commit("a")
    \/ next_request("a")
    \/ \E token \in GateTokens, user_id \in UserIds : get_user_roles_endpoint(token, user_id)

SpecCommit == InitRbac /\ [][NextCommit]_vars

\* the store holds what the request in flight changes
Committed(p) ==
    IF inflight[p].op = "delete_existing_role" THEN ~RoleExists(inflight[p].arg)
    ELSE \E i \in DOMAIN auditLogs :
            /\ auditLogs[i].action = "role_assigned"
            /\ auditLogs[i].target = inflight[p].user_id
            /\ auditLogs[i].role = inflight[p].arg

\* C30: for every RBAC mutation, the cache invalidation of the affected users
\* is issued only after the store transaction carrying the mutation has
\* committed: at the step that invalidates, the store holds the mutation.
C30_InvalidationFollowsCommit ==
    [][\A p \in Procs :
          (inflight[p].pc = "checked" /\ inflight'[p].pc = "invalidated") => Committed(p)]_vars

-----------------------------------------------------------------------------
(* SpecSession: POST /auth/refresh served concurrently with other requests of
   the session surface. A refresh gives way to the others at its awaits: after
   validate_refresh_token read the binding, and the rest of the handler (the
   select of the user, create_tokens, store_refresh_token) follows later. *)

\* HTTP requests answered in one behaviour of SpecSession
MaxSessionReq == 4
\* clock advances in one behaviour of SpecSession
MaxSessionTicks == 1

\* refresh_token up to "is_valid = await validate_refresh_token(...)"
refresh_validate(p, refresh_token_value) ==
    /\ inflight[p].pc = "idle"
    /\ UNCHANGED <<now, users, rbacVars, nticks, authVars, rateVars, documents, cacheDown,
                   permissionRows, oidcStates, identity>>
    /\ LET token_payload == decode_token(refresh_token_value)
       IN IF refresh_token_value = NoToken \/ ~token_payload.ok
          THEN Reply(p, "refresh_token", 401, refresh_token_value, None, None)
          ELSE IF token_payload.type # "refresh" \/ is_token_expired(token_payload)
          THEN Reply(p, "refresh_token", 401, refresh_token_value, None, None)
          ELSE IF ~validate_refresh_token(token_payload.sub, refresh_token_value)
          THEN Reply(p, "refresh_token", 401, refresh_token_value, token_payload.sub, None)
          ELSE Proceed(p, "validated", "refresh_token", refresh_token_value, None,
                       token_payload.sub)

\* refresh_token from the select of the user to the response
refresh_rotate(p) ==
    /\ inflight[p].pc = "validated"
    /\ inflight[p].op = "refresh_token"
    /\ UNCHANGED <<now, rbacVars, nticks, rateVars, documents, cacheDown, permissionRows,
                   oidcStates, identity, users, passwordHash, resetTokens, userResetTokens,
                   resetHistory, revoked>>
    /\ LET user_id == inflight[p].user_id
           tokens == create_tokens(user_id)
       IN IF ~UserExists(user_id) \/ ~users[user_id].is_active
          THEN /\ inflight' = [inflight EXCEPT ![p].pc = "done", ![p].status = 401]
               /\ Respond("refresh_token", 401, inflight[p].token, user_id, None, {})
               /\ UNCHANGED <<refreshTokens, issued>>
          ELSE /\ refreshTokens' =
                      store_refresh_token(refreshTokens, user_id, tokens.refresh_token)
               /\ issued' = issued \cup {tokens.access_token, tokens.refresh_token}
               /\ inflight' = [inflight EXCEPT ![p].pc = "done", ![p].status = 200]
               /\ Respond("refresh_token", 200, inflight[p].token, user_id, None,
                          {tokens.access_token, tokens.refresh_token})

SessionEmails == {"e1", "e2"}

NextSession ==
    \/ \E email \in SessionEmails : nreq < MaxSessionReq /\ login(email, "pw1")
    \/ \E p \in Procs, t \in issued \cup {NoToken} :
          nreq < MaxSessionReq /\ refresh_validate(p, t)
    \/ \E p \in Procs : refresh_rotate(p)
    \/ \E p \in Procs : next_request(p)
    \/ \E t \in issued \cup {NoToken} : nreq < MaxSessionReq /\ logout(t)
    \/ nticks < MaxSessionTicks /\ Tick(1)

SpecSession == InitAuth /\ [][NextSession]_vars

\* both workers have answered 200 to a refresh that presented t
BothRotated(t) ==
    \A p \in Procs :
        /\ inflight[p].pc = "done"
        /\ inflight[p].op = "refresh_token"
        /\ inflight[p].status = 200
        /\ inflight[p].token = t

\* C31: when two /auth/refresh requests presenting the same stored refresh
\* token t run concurrently, both may validate and both rotate, and once
\* both have completed the stored binding is the refresh token written by the
\* last writer, exactly one refresh token validates for the user, and t no
\* longer validates.
C31_LastWriterWins ==
    \A t \in issued :
        (/\ BothRotated(t)
         /\ response.op = "refresh_token"
         /\ response.status = 200
         /\ response.token = t)
            => /\ validate_refresh_token(t[2], NewRefreshToken(response.body))
               /\ Cardinality({x \in issued : validate_refresh_token(t[2], x)}) = 1
               /\ ~validate_refresh_token(t[2], t)

\* C36: once POST /auth/logout for user u has completed, no refresh token
\* validates for u until u logs in again, also when a /auth/refresh for u was
\* in flight concurrently with the logout: a binding of u that is absent
\* comes back by a login of u only.
C36_LogoutEndsTheSession ==
    [][\A u \in UserIds :
          (~Live(refreshTokens[u]) /\ Live(refreshTokens'[u]))
              => /\ response'.seq # response.seq
                 /\ response'.op = "login"
                 /\ response'.user = u]_vars

-----------------------------------------------------------------------------
(* SpecLimit: login attempts from one address served concurrently on one
   replica. check_rate_limit gives way to the other attempts between its reads
   (TTL of the block key, GET of the counter) and its write (SET, or SET and
   DEL, or INCRBY). *)

\* attempts answered in one behaviour of SpecLimit
MaxLimitReq == 7
\* clock advances in one behaviour of SpecLimit
MaxLimitTicks == 2

\* the TTL Redis reports for a key without expiry
NoExpiry == -1

\* a key of Redis is there until its expiry time, if it has one
KeyThere(entry) == entry.hit /\ (entry.expire_at = NoExpiry \/ now < entry.expire_at)

\* RedisCache.increment: INCRBY creates a key that is not there, without expiry
increment(rl, key) ==
    IF KeyThere(rl[key]) THEN [rl EXCEPT ![key].value = @ + 1]
    ELSE [rl EXCEPT ![key] = [hit |-> TRUE, value |-> 1, expire_at |-> NoExpiry]]

\* check_rate_limit up to "current_count = await cache.get(rate_key)"; the
\* count read is <<>> for None
limit_read(p) ==
    /\ inflight[p].pc = "idle"
    /\ UNCHANGED <<now, users, rbacVars, nticks, authVars, rateVars, documents, cacheDown,
                   permissionRows, oidcStates, identity>>
    /\ LET block_key == _get_block_key(ClientIp, "login")
           rate_key == _get_rate_limit_key(ClientIp, "login")
           block_ttl == IF KeyThere(rateLimit[block_key])
                        THEN rateLimit[block_key].expire_at - now ELSE -2
       IN IF block_ttl > 0
          THEN Reply(p, "login", 429, NoToken, None, None)
          ELSE Proceed(p, "read", "login", NoToken,
                       IF KeyThere(rateLimit[rate_key]) THEN <<rateLimit[rate_key].value>>
                       ELSE <<>>,
                       None)

\* the rest of check_rate_limit, and the answer: 429, or 401 of the handler
\* that refuses the password
limit_write(p) ==
    /\ inflight[p].pc = "read"
    /\ inflight[p].op = "login"
    /\ UNCHANGED <<now, users, rbacVars, nticks, authVars, window, sinceReset, documents,
                   cacheDown, permissionRows, oidcStates, identity>>
    /\ LET block_key == _get_block_key(ClientIp, "login")
           rate_key == _get_rate_limit_key(ClientIp, "login")
           current_count == inflight[p].arg
           is_allowed == current_count = <<>>
                            \/ ~limit_exceeded(current_count[1], LOGIN_RATE_LIMIT_REQUESTS)
       IN /\ rateLimit' =
                IF current_count = <<>>
                THEN [rateLimit EXCEPT ![rate_key] =
                         [hit |-> TRUE, value |-> 1,
                          expire_at |-> now + LOGIN_RATE_LIMIT_WINDOW]]
                ELSE IF limit_exceeded(current_count[1], LOGIN_RATE_LIMIT_REQUESTS)
                THEN [rateLimit EXCEPT ![block_key] =
                         [hit |-> TRUE, value |-> 1,
                          expire_at |-> now + LOGIN_RATE_LIMIT_BLOCK_TIME],
                                       ![rate_key] = NoEntry]
                ELSE increment(rateLimit, rate_key)
          /\ inflight' = [inflight EXCEPT ![p].pc = "done",
                                          ![p].status = IF is_allowed THEN 401 ELSE 429]
          /\ Respond("login", IF is_allowed THEN 401 ELSE 429, NoToken, None, None, {})

LimitTickSteps == {1, LOGIN_RATE_LIMIT_WINDOW}

NextLimit ==
    \/ \E p \in Procs : nreq < MaxLimitReq /\ limit_read(p)
    \/ \E p \in Procs : limit_write(p)
    \/ \E p \in Procs : next_request(p)
    \/ \E d \in LimitTickSteps : nticks < MaxLimitTicks /\ Tick(d)

SpecLimit == InitRate /\ [][NextLimit]_vars

\* C32: on a single replica the rate-limit counter update of an attempt is
\* atomic: for concurrent attempts on the same (identifier, action) no count
\* is lost, so after k allowed attempts inside one window with no expiry in
\* between the counter value is k.
C32_NoCountIsLost ==
    (/\ nticks = 0
     /\ nreq \in 1..LOGIN_RATE_LIMIT_REQUESTS
     /\ \A p \in Procs : inflight[p].pc # "read")
        => /\ KeyThere(rateLimit[_get_rate_limit_key(ClientIp, "login")])
           /\ rateLimit[_get_rate_limit_key(ClientIp, "login")].value = nreq

\* C39: every rate-limit counter key that exists in the cache carries an
\* expiry of at most window_seconds, in every interleaving of attempts with
\* key expiry; a counter is never left without a TTL.
C39_CountersExpire ==
    LET counter == rateLimit[_get_rate_limit_key(ClientIp, "login")]
    IN KeyThere(counter)
          => /\ counter.expire_at # NoExpiry
             /\ counter.expire_at - now <= LOGIN_RATE_LIMIT_WINDOW

\* no DELETE /roles/{role_id} or POST /users/{user_id}/roles is between its
\* first and its last step
NoMutationInProgress ==
    \A p \in Procs :
        inflight[p].op \in {"delete_existing_role", "assign_user_role"}
            => inflight[p].pc \in {"idle", "done"}

\* C37: under concurrent requests, once an RBAC mutation request affecting user
\* u has completed and no other mutation is in progress, a permission
\* evaluation for u never returns a pre-mutation permission list from the
\* cache: the list the cache holds for u is the list the store gives.
C37_NoStaleListAfterMutation ==
    NoMutationInProgress
        => \A u \in UserIds :
              CacheHit(cache, _user_permissions_cache_key(u))
                  => cache[_user_permissions_cache_key(u)].value = LoadPermissions(u)

====
